---- MODULE Spec2Model ----
(***************************************************************************)
(* A model of agent-ready-layer: the contract generator (domParser +       *)
(* contractGenerator), the network capture of apiDiscovery and the         *)
(* process-wide browser session of browserSession.js.                      *)
(*                                                                         *)
(* JavaScript strings are sequences of one-character strings, so that the  *)
(* string functions of the code (trim, replace, slice, toLowerCase, ...)   *)
(* are computed character by character.  The empty sequence is the empty   *)
(* string; an absent attribute is a name missing from DOMAIN attrs.        *)
(***************************************************************************)
EXTENDS Integers, Sequences, FiniteSets, TLC

VARIABLES
    \* generateContract: the call in hand, its result, and the calls seen
    html, options, contract, usedActions, gcPc, history,
    \* inferSchemaFromBody: the argument and the schema returned
    jsonBody, inferred, inferPc,
    \* fetchWithApiDiscovery: one capture, and what the page has sent so far
    capPc, discoveredApis, seen, returned, settled, nEvents, firstSample, laterSeen,
    \* browserSession: module state, the browser processes, the calls
    browser, page, started, open, dom, filled, calls, last, nCalls, overlapped,
    \* runAgentTurn: one call, its loop and its message list
    agent

gcVars == <<html, options, contract, usedActions, gcPc, history>>
inferVars == <<jsonBody, inferred, inferPc>>
capVars == <<inferVars, capPc, discoveredApis, seen, returned, settled, nEvents, firstSample, laterSeen>>
sessVars == <<browser, page, started, open, dom, filled, calls, last, nCalls, overlapped>>
vars == <<gcVars, capVars, sessVars, agent>>

\* The JavaScript values null / undefined, where the code tells them from a string.
Null == <<"<null>">>
Undefined == <<"<undefined>">>

(***************************************************************************)
(* Strings                                                                 *)
(***************************************************************************)
UpperChars == <<"A","B","C","D","E","F","G","H","I","J","K","L","M",
                "N","O","P","Q","R","S","T","U","V","W","X","Y","Z">>
LowerChars == <<"a","b","c","d","e","f","g","h","i","j","k","l","m",
                "n","o","p","q","r","s","t","u","v","w","x","y","z">>
DigitChars == <<"0","1","2","3","4","5","6","7","8","9">>

Range(s) == {s[i] : i \in DOMAIN s}

IsUpper(c) == c \in Range(UpperChars)
IsLower(c) == c \in Range(LowerChars)
IsDigit(c) == c \in Range(DigitChars)
IsSpace(c) == c \in {" ", "\t", "\n"}
\* [a-zA-Z0-9_]
IsWordChar(c) == IsUpper(c) \/ IsLower(c) \/ IsDigit(c) \/ c = "_"

CharToLower(c) ==
    IF IsUpper(c) THEN LowerChars[CHOOSE i \in DOMAIN UpperChars : UpperChars[i] = c] ELSE c
CharToUpper(c) ==
    IF IsLower(c) THEN UpperChars[CHOOSE i \in DOMAIN LowerChars : LowerChars[i] = c] ELSE c

\* String.prototype.toLowerCase / toUpperCase
RECURSIVE ToLowerCase(_)
ToLowerCase(s) == IF s = <<>> THEN <<>> ELSE <<CharToLower(Head(s))>> \o ToLowerCase(Tail(s))
RECURSIVE ToUpperCase(_)
ToUpperCase(s) == IF s = <<>> THEN <<>> ELSE <<CharToUpper(Head(s))>> \o ToUpperCase(Tail(s))

\* s.replace(/[^a-zA-Z0-9_]/g, '')
RECURSIVE KeepWordChars(_)
KeepWordChars(s) ==
    IF s = <<>> THEN <<>>
    ELSE (IF IsWordChar(Head(s)) THEN <<Head(s)>> ELSE <<>>) \o KeepWordChars(Tail(s))

\* String.prototype.trim
RECURSIVE TrimStart(_)
TrimStart(s) == IF s # <<>> /\ IsSpace(Head(s)) THEN TrimStart(Tail(s)) ELSE s
RECURSIVE TrimEnd(_)
TrimEnd(s) ==
    IF s # <<>> /\ IsSpace(s[Len(s)]) THEN TrimEnd(SubSeq(s, 1, Len(s) - 1)) ELSE s
Trim(s) == TrimEnd(TrimStart(s))

\* s.slice(0, n)
Slice0(s, n) == SubSeq(s, 1, IF Len(s) < n THEN Len(s) ELSE n)

\* s.startsWith(p), s.includes(p)
StartsWith(s, p) == Len(p) <= Len(s) /\ SubSeq(s, 1, Len(p)) = p
Includes(s, p) == \E i \in 0..(Len(s) - Len(p)) : SubSeq(s, i + 1, i + Len(p)) = p

\* s.replace(/\s+/g, '_'): every maximal run of whitespace becomes one underscore
RECURSIVE CollapseSpaces(_)
CollapseSpaces(s) ==
    IF s = <<>> THEN <<>>
    ELSE IF IsSpace(Head(s)) THEN <<"_">> \o CollapseSpaces(TrimStart(s))
    ELSE <<Head(s)>> \o CollapseSpaces(Tail(s))

\* String(n) for a natural number n
RECURSIVE NumStr(_)
NumStr(n) == IF n < 10 THEN <<DigitChars[n + 1]>> ELSE NumStr(n \div 10) \o <<DigitChars[(n % 10) + 1]>>

\* xs.join(sep) for a sequence of strings
RECURSIVE Join(_, _)
Join(xs, sep) ==
    IF xs = <<>> THEN <<>>
    ELSE IF Len(xs) = 1 THEN xs[1]
    ELSE xs[1] \o sep \o Join(Tail(xs), sep)

\* s.split(sep) for a one-character separator
RECURSIVE Split(_, _)
Split(s, sep) ==
    IF \A i \in DOMAIN s : s[i] # sep THEN <<s>>
    ELSE LET k == CHOOSE i \in DOMAIN s : s[i] = sep /\ \A j \in 1..(i - 1) : s[j] # sep
         IN  <<SubSeq(s, 1, k - 1)>> \o Split(SubSeq(s, k + 1, Len(s)), sep)

\* xs.filter(Boolean) for a sequence of strings: the non-empty ones
RECURSIVE NonEmpty(_)
NonEmpty(xs) ==
    IF xs = <<>> THEN <<>>
    ELSE (IF Head(xs) # <<>> THEN <<Head(xs)>> ELSE <<>>) \o NonEmpty(Tail(xs))

\* xs.slice(-n)
LastN(xs, n) == IF Len(xs) <= n THEN xs ELSE SubSeq(xs, Len(xs) - n + 1, Len(xs))

\* a || b for strings: the first non-empty one
Or(a, b) == IF a # <<>> THEN a ELSE b

(***************************************************************************)
(* The document: what cheerio.load(html) gives the selectors.  An element  *)
(* is [tag, attrs, text, kids]: attrs a sequence of <<name, value>> pairs, *)
(* text its own text, kids its child elements in document order.           *)
(***************************************************************************)
HasAttr(el, a) == \E i \in DOMAIN el.attrs : el.attrs[i][1] = a
\* $el.attr(a) || '': the value of the first attribute of that name
Attr(el, a) ==
    IF HasAttr(el, a)
    THEN el.attrs[CHOOSE i \in DOMAIN el.attrs :
                      el.attrs[i][1] = a /\ \A j \in 1..(i - 1) : el.attrs[j][1] # a][2]
    ELSE <<>>
\* $el.attr(a) || null
AttrOrNull(el, a) == IF Attr(el, a) # <<>> THEN Attr(el, a) ELSE Null

\* $el.text(): the element's text and its descendants', in document order
RECURSIVE TextOf(_)
RECURSIVE TextOfAll(_)
TextOf(el) == el.text \o TextOfAll(el.kids)
TextOfAll(nodes) == IF nodes = <<>> THEN <<>> ELSE TextOf(Head(nodes)) \o TextOfAll(Tail(nodes))

\* Every element under `nodes` in document order, each with whether
\* $el.closest('form') finds a form (the element itself or an ancestor).
RECURSIVE Walk(_, _)
Walk(nodes, underForm) ==
    IF nodes = <<>> THEN <<>>
    ELSE LET n == Head(nodes)
             f == underForm \/ n.tag = "form"
         IN  <<[el |-> n, inForm |-> f]>> \o Walk(n.kids, f) \o Walk(Tail(nodes), underForm)

sSubmit == <<"s","u","b","m","i","t">>
sButton == <<"b","u","t","t","o","n">>
sImage == <<"i","m","a","g","e">>
sBtn == <<"b","t","n">>
sGet == <<"g","e","t">>
sGET == <<"G","E","T">>
sPOST == <<"P","O","S","T">>
sString == <<"s","t","r","i","n","g">>
sNumber == <<"n","u","m","b","e","r">>
sBoolean == <<"b","o","o","l","e","a","n">>
sArray == <<"a","r","r","a","y">>
sObject == <<"o","b","j","e","c","t">>
sText == <<"t","e","x","t">>
sSelect == <<"s","e","l","e","c","t">>
sCheckbox == <<"c","h","e","c","k","b","o","x">>

\* 'input, select, textarea'
IsField(el) == el.tag \in {"input", "select", "textarea"}
\* 'button[type="submit"], input[type="submit"]'
IsSubmitControl(el) == el.tag \in {"button", "input"} /\ Attr(el, "type") = sSubmit
\* buttonSelectors of extractInteractiveGroups
IsButtonLike(el) ==
    \/ el.tag = "button"
    \/ el.tag = "input" /\ Attr(el, "type") \in {sButton, sSubmit, sImage}
    \/ Attr(el, "role") = sButton
    \/ el.tag = "a" /\ (Includes(Attr(el, "class"), sBtn) \/ Includes(Attr(el, "class"), sButton))
    \/ HasAttr(el, "data-action")
    \/ HasAttr(el, "data-submit")
    \/ HasAttr(el, "onclick")

\* inputTypeToSchema: the fixed table, 'string' for every type not in it
inputTypeToSchema(type) ==
    IF type = sNumber THEN sNumber
    ELSE IF type = sCheckbox THEN sBoolean
    ELSE sString

\* The type of one named field, as line 93 computes it.  `||` binds tighter
\* than `?:`, so the condition is (attr('type') || tagName === 'select').
FieldType(el) ==
    LET type == ToLowerCase(IF Attr(el, "type") # <<>> \/ el.tag = "select" THEN sSelect ELSE sText)
    IN  IF type = sSelect THEN sString ELSE inputTypeToSchema(type)

RECURSIVE FormInputs(_)
FormInputs(w) ==
    IF w = <<>> THEN <<>>
    ELSE LET inp == Head(w).el
         IN  (IF IsField(inp) /\ Attr(inp, "name") # <<>>
              THEN <<[name |-> Attr(inp, "name"), type |-> FieldType(inp),
                      required |-> HasAttr(inp, "required")]>>
              ELSE <<>>) \o FormInputs(Tail(w))

\* .find('button[type="submit"], input[type="submit"]').first().text().trim() || 'submit'
SubmitText(form) ==
    LET w == Walk(form.kids, TRUE)
        hits == {i \in DOMAIN w : IsSubmitControl(w[i].el)}
        first == CHOOSE i \in hits : \A j \in hits : i <= j
    IN  Or(IF hits = {} THEN <<>> ELSE Trim(TextOf(w[first].el)), sSubmit)

FormRecord(form) ==
    LET method == ToUpperCase(Or(Attr(form, "method"), sGet))
    IN  [action |-> Attr(form, "action"),
         method |-> IF method = sGET THEN sGET ELSE sPOST,
         inputs |-> FormInputs(Walk(form.kids, TRUE)),
         submitLabel |-> SubmitText(form),
         id |-> AttrOrNull(form, "id"),
         className |-> AttrOrNull(form, "class")]

ButtonRecord(x) ==
    LET el == x.el
        text == Trim(Or(Trim(TextOf(el)), Or(Attr(el, "value"), Or(Attr(el, "aria-label"),
                     Or(Attr(el, "title"), Or(Attr(el, "data-label"),
                        Or(Attr(el, "data-action"), Attr(el, "alt"))))))))
    IN  [text |-> text, id |-> AttrOrNull(el, "id"), className |-> AttrOrNull(el, "class"),
         tag |-> el.tag, type |-> ToLowerCase(Attr(el, "type")), inForm |-> x.inForm]

sJavascript == <<"j","a","v","a","s","c","r","i","p","t">>
\* /^\s*javascript\s*:/i
IsScriptHref(href) ==
    LET h == ToLowerCase(TrimStart(href))
    IN  StartsWith(h, sJavascript)
        /\ LET rest == TrimStart(SubSeq(h, Len(sJavascript) + 1, Len(h)))
           IN  rest # <<>> /\ Head(rest) = ":"

\* a[href] that the link loop keeps
IsKeptLink(el) ==
    LET href == Trim(Attr(el, "href"))
    IN  el.tag = "a" /\ HasAttr(el, "href")
        /\ ~(href = <<>> \/ href = <<"#">> \/ StartsWith(href, <<"#">>) \/ IsScriptHref(href))

LinkRecord(el) ==
    [href |-> Trim(Attr(el, "href")), text |-> Trim(TextOf(el)),
     className |-> AttrOrNull(el, "class"), id |-> AttrOrNull(el, "id")]

RECURSIVE MapForms(_)
MapForms(w) ==
    IF w = <<>> THEN <<>>
    ELSE (IF Head(w).el.tag = "form" THEN <<FormRecord(Head(w).el)>> ELSE <<>>) \o MapForms(Tail(w))
RECURSIVE MapButtons(_)
MapButtons(w) ==
    IF w = <<>> THEN <<>>
    ELSE (IF IsButtonLike(Head(w).el) THEN <<ButtonRecord(Head(w))>> ELSE <<>>) \o MapButtons(Tail(w))
RECURSIVE MapLinks(_)
MapLinks(w) ==
    IF w = <<>> THEN <<>>
    ELSE (IF IsKeptLink(Head(w).el) THEN <<LinkRecord(Head(w).el)>> ELSE <<>>) \o MapLinks(Tail(w))

extractInteractiveGroups(doc) ==
    LET w == Walk(doc, FALSE)
    IN  [forms |-> MapForms(w), buttons |-> MapButtons(w), links |-> MapLinks(w)]

(***************************************************************************)
(* contractGenerator: names, schemas and the contract                      *)
(***************************************************************************)
\* A value the code tests with `x && ...` / `x || ...`
Truthy(x) == x # <<>> /\ x # Null /\ x # Undefined
OrV(a, b) == IF Truthy(a) THEN a ELSE b

sAgentPrefix == <<"/","a","g","e","n","t">>
sPageActions == <<"p","a","g","e","A","c","t","i","o","n","s">>
sSubmitForm == <<"s","u","b","m","i","t","F","o","r","m","_">>
sButtonUnderscore == <<"b","u","t","t","o","n","_">>
sLink == <<"l","i","n","k">>
sApiUnderscore == <<"a","p","i","_">>
sApi == <<"a","p","i">>
sRoot == <<"r","o","o","t">>
sSubmitColon == <<"S","u","b","m","i","t",":"," ">>
sFormSpace == <<"F","o","r","m"," ">>
sButtonSpace == <<"B","u","t","t","o","n"," ">>
sRealApi == <<"R","e","a","l"," ","A","P","I",":"," ">>

TitleCap == 40
PathSlugCap == 30

\* variant: slug without the lower-casing
slugKeepCase(name) == KeepWordChars(CollapseSpaces(name))
\* slug: whitespace runs to '_', other non-word characters dropped, lower case
slug(name) == ToLowerCase(KeepWordChars(CollapseSpaces(name)))

\* s.replace(/\s/g, '_'): each whitespace character on its own
RECURSIVE SpacesToUnderscores(_)
SpacesToUnderscores(s) ==
    IF s = <<>> THEN <<>>
    ELSE <<IF IsSpace(Head(s)) THEN "_" ELSE Head(s)>> \o SpacesToUnderscores(Tail(s))

RECURSIVE TitleText(_)
TitleText(w) ==
    IF w = <<>> THEN <<>>
    ELSE (IF Head(w).el.tag = "title" THEN TextOf(Head(w).el) ELSE <<>>) \o TitleText(Tail(w))

\* variant: the title is looked at before the hint
inferContractNameTitleFirst(doc, contextHint) ==
    LET hint == IF Truthy(contextHint) THEN SpacesToUnderscores(contextHint) ELSE <<>>
        title == Trim(TitleText(Walk(doc, FALSE)))
    IN  IF title # <<>>
        THEN Or(Slice0(KeepWordChars(CollapseSpaces(title)), TitleCap), sPageActions)
        ELSE IF Truthy(contextHint) /\ hint # <<>> /\ \A i \in DOMAIN hint : IsWordChar(hint[i])
        THEN hint
        ELSE sPageActions
inferContractName(doc, contextHint) ==
    LET hint == IF Truthy(contextHint) THEN SpacesToUnderscores(contextHint) ELSE <<>>
        title == Trim(TitleText(Walk(doc, FALSE)))
    IN  IF Truthy(contextHint) /\ hint # <<>> /\ \A i \in DOMAIN hint : IsWordChar(hint[i])
        THEN hint
        ELSE IF title # <<>>
        THEN Or(Slice0(KeepWordChars(CollapseSpaces(title)), TitleCap), sPageActions)
        ELSE sPageActions

\* buildSchemaFromInputs, then Object.fromEntries(... [k, v.type]): one entry
\* per field name, at the place of its first field, with the type of its last
RECURSIVE SchemaPut(_, _, _)
SchemaPut(schema, k, v) ==
    IF schema = <<>> THEN <<<<k, v>>>>
    ELSE IF Head(schema)[1] = k THEN <<<<k, v>>>> \o Tail(schema)
    ELSE <<Head(schema)>> \o SchemaPut(Tail(schema), k, v)
RECURSIVE buildSchemaFromInputs(_, _)
buildSchemaFromInputs(inputs, schema) ==
    IF inputs = <<>> THEN schema
    ELSE buildSchemaFromInputs(Tail(inputs), SchemaPut(schema, Head(inputs).name, Head(inputs).type))

FormActionName(form, idx) ==
    IF Truthy(form.submitLabel) THEN slug(form.submitLabel) ELSE sSubmitForm \o NumStr(idx + 1)

\* forms.forEach: one action per form, the name not made unique
RECURSIVE FormActions(_, _)
FormActions(forms, idx) ==
    IF forms = <<>> THEN <<>>
    ELSE LET form == Head(forms)
             actionName == FormActionName(form, idx)
         IN  <<[action |-> actionName,
                method |-> form.method,
                endpoint |-> sAgentPrefix \o <<"/">> \o actionName,
                schema |-> buildSchemaFromInputs(form.inputs, <<>>),
                description |-> IF Truthy(form.submitLabel) THEN sSubmitColon \o form.submitLabel
                                ELSE sFormSpace \o NumStr(idx + 1)]>>
             \o FormActions(Tail(forms), idx + 1)

\* the while loop of ensureUnique / apiActionName: base_n for the first free n
RECURSIVE FirstFree(_, _, _)
FirstFree(base, n, used) ==
    IF (base \o <<"_">> \o NumStr(n)) \in used THEN FirstFree(base, n + 1, used)
    ELSE base \o <<"_">> \o NumStr(n)

\* variant: ensureUnique without the look-up in the used set
ensureUniqueNoCheck(baseName, used) == baseName
\* ensureUnique: the name returned; the caller's set gains it
ensureUnique(baseName, used) ==
    IF baseName \in used THEN FirstFree(baseName, 2, used) ELSE baseName

RECURSIVE FormActionNames(_)
FormActionNames(forms) ==
    IF forms = <<>> THEN {}
    ELSE (IF Truthy(Head(forms).submitLabel) /\ slug(Head(forms).submitLabel) # <<>>
          THEN {slug(Head(forms).submitLabel)} ELSE {}) \cup FormActionNames(Tail(forms))

ButtonBase(btn) ==
    OrV(IF Truthy(btn.text) THEN slug(btn.text) ELSE <<>>,
        OrV(IF Truthy(btn.id) THEN slug(btn.id) ELSE <<>>, <<>>))

\* variant: the button loop without the nested-submit test
ButtonNeverSkipped(btn, base, formActionNames) == FALSE
\* the nested-submit test of the button loop
ButtonSkipped(btn, base, formActionNames) ==
    btn.inForm /\ base # <<>> /\ base \in formActionNames

\* buttons.forEach, threading [actions, used]
RECURSIVE ButtonActions(_, _, _, _)
ButtonActions(buttons, idx, acc, formActionNames) ==
    IF buttons = <<>> THEN acc
    ELSE LET btn == Head(buttons)
             base == ButtonBase(btn)
             actionName == ensureUnique(Or(base, sButtonUnderscore \o NumStr(idx + 1)), acc.used)
         IN  IF ButtonSkipped(btn, base, formActionNames)
             THEN ButtonActions(Tail(buttons), idx + 1, acc, formActionNames)
             ELSE ButtonActions(Tail(buttons), idx + 1,
                      [actions |-> Append(acc.actions,
                                     [action |-> actionName,
                                      method |-> sPOST,
                                      endpoint |-> sAgentPrefix \o <<"/">> \o actionName,
                                      schema |-> <<>>,
                                      description |-> OrV(btn.text, OrV(btn.id, sButtonSpace \o NumStr(idx + 1)))]),
                       used |-> acc.used \cup {actionName}],
                      formActionNames)

sHttp == <<"h","t","t","p",":","/","/">>
sHttps == <<"h","t","t","p","s",":","/","/">>
\* the characters of s up to the first '/', and from it on
RECURSIVE UpToSlash(_)
UpToSlash(s) == IF s = <<>> \/ Head(s) = "/" THEN <<>> ELSE <<Head(s)>> \o UpToSlash(Tail(s))
FromSlash(s) == SubSeq(s, Len(UpToSlash(s)) + 1, Len(s))
\* href.replace(/^https?:\/\/[^/]+/, '')
StripOrigin(href) ==
    LET rest == IF StartsWith(href, sHttps) THEN SubSeq(href, Len(sHttps) + 1, Len(href))
                ELSE IF StartsWith(href, sHttp) THEN SubSeq(href, Len(sHttp) + 1, Len(href))
                ELSE Null
    IN  IF rest = Null \/ UpToSlash(rest) = <<>> THEN href ELSE FromSlash(rest)
\* s.replace(/\//g, '_')
RECURSIVE SlashesToUnderscores(_)
SlashesToUnderscores(s) ==
    IF s = <<>> THEN <<>>
    ELSE <<IF Head(s) = "/" THEN "_" ELSE Head(s)>> \o SlashesToUnderscores(Tail(s))

PathSlug(href) == Or(slug(Slice0(SlashesToUnderscores(StripOrigin(href)), PathSlugCap)), sLink)

LinkBase(link) ==
    OrV(IF Truthy(link.text) THEN slug(link.text) ELSE <<>>,
        OrV(IF Truthy(link.id) THEN slug(link.id) ELSE <<>>, PathSlug(link.href)))

\* links.forEach, threading [actions, used]
RECURSIVE LinkActions(_, _)
LinkActions(links, acc) ==
    IF links = <<>> THEN acc
    ELSE LET link == Head(links)
             actionName == ensureUnique(LinkBase(link), acc.used)
         IN  LinkActions(Tail(links),
                 [actions |-> Append(acc.actions,
                                [action |-> actionName,
                                 method |-> sGET,
                                 endpoint |-> sAgentPrefix \o <<"/">> \o actionName,
                                 schema |-> <<>>,
                                 description |-> OrV(link.text, link.href)]),
                  used |-> acc.used \cup {actionName}])

\* new URL(url), for absolute http(s) URLs: [ok, pathname].  Anything else
\* (a relative path, free text) makes the constructor throw.
RECURSIVE UpToStop(_, _)
UpToStop(s, stops) ==
    IF s = <<>> \/ Head(s) \in stops THEN <<>> ELSE <<Head(s)>> \o UpToStop(Tail(s), stops)
ParseURL(url) ==
    LET low == ToLowerCase(url)
        rest == IF StartsWith(low, sHttps) THEN SubSeq(url, Len(sHttps) + 1, Len(url))
                ELSE IF StartsWith(low, sHttp) THEN SubSeq(url, Len(sHttp) + 1, Len(url))
                ELSE Null
        host == IF rest = Null THEN <<>> ELSE UpToStop(rest, {"/", "?", "#"})
        path == IF rest = Null THEN <<>>
                ELSE UpToStop(SubSeq(rest, Len(host) + 1, Len(rest)), {"?", "#"})
    IN  IF rest = Null \/ host = <<>> \/ \E i \in DOMAIN host : IsSpace(host[i])
        THEN [ok |-> FALSE, pathname |-> <<>>]
        ELSE [ok |-> TRUE, pathname |-> Or(path, <<"/">>)]

\* s.replace(/[^a-z0-9_]/g, '_')
RECURSIVE Sanitize(_)
Sanitize(s) ==
    IF s = <<>> THEN <<>>
    ELSE <<IF IsLower(Head(s)) \/ IsDigit(Head(s)) \/ Head(s) = "_" THEN Head(s) ELSE "_">>
         \o Sanitize(Tail(s))

\* the name the catch branch of apiActionName gives
ApiFallbackName(used) == sApiUnderscore \o NumStr(Cardinality(used) + 1)

\* apiActionName: the name returned; the caller's set gains it
apiActionName(api, used) ==
    LET u == ParseURL(api.url)
        trimmed == IF u.pathname # <<>> /\ u.pathname[Len(u.pathname)] = "/"
                   THEN SubSeq(u.pathname, 1, Len(u.pathname) - 1) ELSE u.pathname
        path == Or(trimmed, sRoot)
        base == Or(Join(LastN(NonEmpty(Split(path, "/")), 2), <<"_">>), sApi)
        slg == Sanitize(ToLowerCase(api.method) \o <<"_">> \o base)
    IN  IF u.ok
        THEN (IF slg \in used THEN FirstFree(slg, 2, used) ELSE slg)
        ELSE ApiFallbackName(used)

\* for (const api of options.discoveredApis), threading [endpoints, used]
RECURSIVE ApiEndpoints(_, _)
ApiEndpoints(apis, acc) ==
    IF apis = <<>> THEN acc
    ELSE LET api == Head(apis)
             actionName == apiActionName(api, acc.used)
         IN  ApiEndpoints(Tail(apis),
                 [endpoints |-> Append(acc.endpoints,
                                  [action |-> actionName,
                                   method |-> api.method,
                                   url |-> api.url,
                                   bodySchema |-> api.bodySchema,
                                   description |-> sRealApi \o api.method \o <<" ">> \o api.url]),
                  used |-> acc.used \cup {actionName}])

ActionNames(actions) == {actions[i].action : i \in DOMAIN actions}

\* variant: a used-name set that outlives the call
usedActionsKept == usedActions
\* The Set that usedActions names when the body of generateContract starts
usedActionsAtEntry == {}

\* variant: generateContract with the links loop ahead of the buttons loop
generateContractLinksFirst(doc, opts) ==
    LET groups == extractInteractiveGroups(doc)
        formActs == FormActions(groups.forms, 0)
        afterForms == [actions |-> formActs, used |-> usedActionsAtEntry \cup ActionNames(formActs)]
        afterLinks == LinkActions(groups.links, afterForms)
        afterButtons == ButtonActions(groups.buttons, 0, afterLinks, FormActionNames(groups.forms))
        afterApis == ApiEndpoints(opts.discoveredApis, [endpoints |-> <<>>, used |-> afterButtons.used])
    IN  [out |-> [contractName |-> inferContractName(doc, opts.context),
                  actions |-> afterButtons.actions,
                  apiEndpoints |-> afterApis.endpoints],
         used |-> afterApis.used]
\* generateContract(html, options): [out: the contract returned, used: the
\* names in usedActions at the return].  apiEndpoints = <<>> is the absent key.
generateContract(doc, opts) ==
    LET groups == extractInteractiveGroups(doc)
        formActs == FormActions(groups.forms, 0)
        afterForms == [actions |-> formActs, used |-> usedActionsAtEntry \cup ActionNames(formActs)]
        afterButtons == ButtonActions(groups.buttons, 0, afterForms, FormActionNames(groups.forms))
        afterLinks == LinkActions(groups.links, afterButtons)
        afterApis == IF opts.discoveredApis # <<>>
                     THEN ApiEndpoints(opts.discoveredApis, [endpoints |-> <<>>, used |-> afterLinks.used])
                     ELSE [endpoints |-> <<>>, used |-> afterLinks.used]
    IN  [out |-> [contractName |-> inferContractName(doc, opts.context),
                  actions |-> afterLinks.actions,
                  apiEndpoints |-> afterApis.endpoints],
         used |-> afterApis.used]

(***************************************************************************)
(* apiDiscovery: schema inference.  A decoded JSON value is [t, s, xs]: t   *)
(* its kind, s the text of a string, number or boolean, xs the entries      *)
(* [k, x] of an object in insertion order, or of an array under its indexes.*)
(***************************************************************************)
JNull == [t |-> "null", s |-> <<>>, xs |-> <<>>]
JStr(x) == [t |-> "string", s |-> x, xs |-> <<>>]
JNum(n) == [t |-> "number", s |-> NumStr(n), xs |-> <<>>]
JBool(b) == [t |-> "boolean", s |-> IF b THEN <<"t","r","u","e">> ELSE <<"f","a","l","s","e">>, xs |-> <<>>]
JArr(vals) == [t |-> "array", s |-> <<>>, xs |-> [i \in 1..Len(vals) |-> [k |-> NumStr(i - 1), x |-> vals[i]]]]
JObj(pairs) == [t |-> "object", s |-> <<>>, xs |-> [i \in 1..Len(pairs) |-> [k |-> pairs[i][1], x |-> pairs[i][2]]]]

\* typeof x
TypeOf(x) ==
    CASE x.t = "string" -> sString
      [] x.t = "number" -> sNumber
      [] x.t = "boolean" -> sBoolean
      [] OTHER -> sObject

\* Object.entries(obj): an object's entries, an array's elements under their indexes
Entries(obj) == obj.xs

\* variant: the per-key test without the Array.isArray branch
ValueSchemaNoArray(v) ==
    IF v.t = "null" THEN sString
    ELSE IF TypeOf(v) = sObject THEN sObject
    ELSE TypeOf(v)
\* the type inferSchemaFromBody gives one value of the body
ValueSchema(v) ==
    IF v.t = "null" THEN sString
    ELSE IF v.t = "array" THEN sArray
    ELSE IF TypeOf(v) = sObject THEN sObject
    ELSE TypeOf(v)

s_body == <<"_","b","o","d","y">>
RECURSIVE SchemaOfEntries(_, _)
SchemaOfEntries(entries, schema) ==
    IF entries = <<>> THEN schema
    ELSE SchemaOfEntries(Tail(entries), SchemaPut(schema, Head(entries).k, ValueSchema(Head(entries).x)))

\* inferSchemaFromBody(obj): the entries of the schema object
inferSchemaFromBody(obj) ==
    IF obj.t = "null" \/ TypeOf(obj) # sObject
    THEN <<<<s_body, TypeOf(obj)>>>>
    ELSE SchemaOfEntries(Entries(obj), <<>>)

(***************************************************************************)
(* apiDiscovery: the requestfinished handler of fetchWithApiDiscovery.     *)
(* A request is what its accessors return: resourceType(), method(),       *)
(* url(), and a body [postData, json, throws, contentType] for postData(), *)
(* postDataJSON() (a decoded value, or a throw) and the content-type.      *)
(***************************************************************************)
API_RESOURCE_TYPES == {"xhr", "fetch"}

\* `${method} ${u}`
RequestKey(method, u) == method \o <<" ">> \o u

\* variant: a handler that never finds its key in `seen`
NeverSeen(key, seenKeys) == FALSE
\* seen.has(key)
AlreadySeen(key, seenKeys) == key \in seenKeys

ContentTypeCap == 80

\* The record the handler pushes for a request it keeps
ApiRecord(request) ==
    LET postData == request.body.postData
        postDataJSON == IF request.body.throws THEN JNull ELSE request.body.json
    IN  [method |-> request.method,
         url |-> request.url,
         postDataSample |-> IF Truthy(postData) THEN postData ELSE Undefined,
         bodySchema |-> IF postDataJSON.t # "null" /\ TypeOf(postDataJSON) = sObject
                        THEN [has |-> TRUE, entries |-> inferSchemaFromBody(postDataJSON)]
                        ELSE [has |-> FALSE, entries |-> <<>>],
         contentType |-> IF Slice0(request.body.contentType, ContentTypeCap) # <<>>
                         THEN Slice0(request.body.contentType, ContentTypeCap) ELSE Undefined]

\* page.on('requestfinished', ...): the arrays after the handler has run
HandlerKeeps(request) ==
    /\ request.resourceType \in API_RESOURCE_TYPES
    /\ ~AlreadySeen(RequestKey(request.method, request.url), seen)

(***************************************************************************)
(* browserSession: the module state and what Playwright resolves.          *)
(* `browser` and `page` hold NoHandle (null) or the number of the browser  *)
(* process the handle belongs to; `open` is the set of running browser     *)
(* processes, `dom` the document of the page, `filled` the values typed    *)
(* into its fields.                                                        *)
(***************************************************************************)
\* let browser = null; let page = null;
NoHandle == 0

\* variant: operations that never find the page missing
NeverNotLaunched(p) == FALSE
\* if (!page) throw ...
NotLaunched(p) == p = NoHandle
\* hasPage()
hasPage == page # NoHandle

\* variant: a launch that never finds a browser
BrowserNeverOpen(b) == FALSE
\* if (browser) ...
BrowserOpen(b) == b # NoHandle

MsgNotLaunched == "Browser not launched. Call browser_launch first."
MsgClickRequired == "click: description or selector is required"
MsgAlreadyOpen == "Browser already open"
MsgOpenedVisible == "Browser opened (visible)"
MsgOpenedHeadless == "Browser opened (headless)"
MsgClosed == "Browser closed"
MsgNoBrowser == "No browser was open"
\* what Playwright rejects with
MsgClickTimeout == "locator.click: Timeout 10000ms exceeded."
MsgFillTimeout == "locator.fill: Timeout 8000ms exceeded."
MsgStrict == "strict mode violation"
MsgLaunchFailed == "browserType.launch: failed"
MsgContextFailed == "browser.newContext: failed"
MsgPageFailed == "context.newPage: failed"
MsgCloseFailed == "browser.close: failed"
MsgGotoFailed == "page.goto: failed"

ClickTimeout == 10000
FillTimeout == 8000
SelectorCap == 200

sInput == <<"i","n","p","u","t">>
sTextarea == <<"t","e","x","t","a","r","e","a">>
sReset == <<"r","e","s","e","t">>
sHidden == <<"h","i","d","d","e","n">>

\* /^[#.\[]|[a-z]+\[|^input$|^button$/i.test(s) || s.includes('>>')
LooksLikeSelector(s) ==
    \/ s # <<>> /\ Head(s) \in {"#", ".", "["}
    \/ \E i \in 1..(Len(s) - 1) : (IsUpper(s[i]) \/ IsLower(s[i])) /\ s[i + 1] = "["
    \/ ToLowerCase(s) \in {sInput, sButton}
    \/ Includes(s, <<">", ">">>)

\* The locator click builds: page.locator(s).first() never throws, so the
\* label chain is built only when s is not selector-shaped or is too long.
ClickLocator(s) ==
    IF LooksLikeSelector(s) /\ Len(s) < SelectorCap
    THEN [kind |-> "css", s |-> s]
    ELSE [kind |-> "chain", s |-> s]

\* How Playwright prints a locator in the call log of its errors
LocatorText(loc) ==
    IF loc.kind = "css"
    THEN <<"l","o","c","a","t","o","r","(","'">> \o loc.s \o <<"'",")",".","f","i","r","s","t","(",")">>
    ELSE <<"g","e","t","B","y","R","o","l","e","(","'","b","u","t","t","o","n","'",","," ","{"," ","n","a","m","e",":"," ","'">>
         \o loc.s \o <<"'"," ","}",")",".","o","r","(","g","e","t","B","y","R","o","l","e","(","'","l","i","n","k","'",","," ","{"," ","n","a","m","e",":"," ","'">>
         \o loc.s \o <<"'"," ","}",")",")",".","o","r","(","g","e","t","B","y","T","e","x","t","(","'">>
         \o loc.s \o <<"'",")",".","f","i","r","s","t","(",")",")">>
sWaitingFor == <<"w","a","i","t","i","n","g"," ","f","o","r"," ">>

\* Playwright matches names and text on whitespace-normalised, lower-cased
\* strings, by containment
RECURSIVE SingleSpaces(_)
SingleSpaces(s) ==
    IF s = <<>> THEN <<>>
    ELSE IF IsSpace(Head(s)) THEN <<" ">> \o SingleSpaces(TrimStart(s))
    ELSE <<Head(s)>> \o SingleSpaces(Tail(s))
Normal(s) == ToLowerCase(SingleSpaces(Trim(s)))
Contains(text, s) == Includes(Normal(text), Normal(s))

\* the elements of the page, in document order
Elements(doc) == Walk(doc, FALSE)
First(S) == IF S = {} THEN {} ELSE {CHOOSE i \in S : \A j \in S : i <= j}

\* page.locator(s): the selectors the model resolves are #id, .class and a tag
CssMatches(s, w) ==
    IF s = <<>> THEN {}
    ELSE IF Head(s) = "#" THEN {i \in DOMAIN w : Attr(w[i].el, "id") = Tail(s)}
    ELSE IF Head(s) = "." THEN
        {i \in DOMAIN w : \E k \in DOMAIN Split(Attr(w[i].el, "class"), " ") :
                            Split(Attr(w[i].el, "class"), " ")[k] = Tail(s)}
    ELSE IF ToLowerCase(s) = sInput THEN {i \in DOMAIN w : w[i].el.tag = "input"}
    ELSE IF ToLowerCase(s) = sButton THEN {i \in DOMAIN w : w[i].el.tag = "button"}
    ELSE {}

\* the accessible name of a button or a link
AccessibleName(el) ==
    IF Attr(el, "aria-label") # <<>> THEN Attr(el, "aria-label")
    ELSE IF el.tag = "input" THEN Attr(el, "value")
    ELSE TextOf(el)
HasButtonRole(el) ==
    \/ el.tag = "button"
    \/ el.tag = "input" /\ Attr(el, "type") \in {sButton, sSubmit, sImage, sReset}
    \/ Attr(el, "role") = sButton
HasLinkRole(el) == el.tag = "a" /\ HasAttr(el, "href")

\* page.getByRole('button', { name: s }), page.getByRole('link', { name: s })
ButtonNameMatches(s, w) == {i \in DOMAIN w : HasButtonRole(w[i].el) /\ Contains(AccessibleName(w[i].el), s)}
LinkNameMatches(s, w) == {i \in DOMAIN w : HasLinkRole(w[i].el) /\ Contains(AccessibleName(w[i].el), s)}
\* page.getByText(s, { exact: false }): the elements whose own text contains s
TextMatches(s, w) == {i \in DOMAIN w : w[i].el.text # <<>> /\ Contains(w[i].el.text, s)}

\* the elements the locator of click resolves to
ClickTargets(loc, w) ==
    IF loc.kind = "css" THEN First(CssMatches(loc.s, w))
    ELSE ButtonNameMatches(loc.s, w) \cup LinkNameMatches(loc.s, w) \cup First(TextMatches(loc.s, w))

\* variant: a click that reports success whatever the locator resolves to
ClickAlwaysLands(loc, w) == "clicked"
\* locator.click({ timeout: 10000 }): no element within the wait, more than
\* one element for a locator that must be strict, or the click
ClickOutcome(loc, w) ==
    IF ClickTargets(loc, w) = {} THEN "timeout"
    ELSE IF Cardinality(ClickTargets(loc, w)) > 1 THEN "strict"
    ELSE "clicked"

\* byName.or(byLabel).or(byPlaceholder), each narrowed with .first()
FillTargets(id, w) ==
    First({i \in DOMAIN w : IsField(w[i].el) /\ Attr(w[i].el, "name") = id})
    \cup First({i \in DOMAIN w : IsField(w[i].el) /\ Attr(w[i].el, "aria-label") # <<>>
                                  /\ Contains(Attr(w[i].el, "aria-label"), id)})
    \cup First({i \in DOMAIN w : IsField(w[i].el) /\ Attr(w[i].el, "placeholder") # <<>>
                                  /\ Contains(Attr(w[i].el, "placeholder"), id)})
\* locator.fill(String(value), { timeout: 8000 })
FillOutcome(id, w) ==
    IF FillTargets(id, w) = {} THEN "timeout"
    ELSE IF Cardinality(FillTargets(id, w)) > 1 THEN "strict"
    ELSE "filled"

\* getSnapshot: what the three cheerio loops keep of the page
ButtonsCap == 50
LinksCap == 80
SnapshotTextCap == 80
SnapshotHrefCap == 200
sSubmitCap == <<"S","u","b","m","i","t">>
sJavascriptColon == sJavascript \o <<":">>

\* 'button, input[type="submit"], input[type="button"], [role="button"]'
IsSnapshotButton(el) ==
    \/ el.tag = "button"
    \/ el.tag = "input" /\ Attr(el, "type") \in {sSubmit, sButton}
    \/ Attr(el, "role") = sButton
SnapshotButtonText(el) ==
    Slice0(Trim(Or(TextOf(el), Or(Attr(el, "value"), Attr(el, "aria-label")))), SnapshotTextCap)
RECURSIVE SnapshotButtons(_)
SnapshotButtons(w) ==
    IF w = <<>> THEN <<>>
    ELSE (IF IsSnapshotButton(Head(w).el) /\ SnapshotButtonText(Head(w).el) # <<>>
          THEN <<[type |-> "button", text |-> SnapshotButtonText(Head(w).el), tag |-> Head(w).el.tag]>>
          ELSE <<>>) \o SnapshotButtons(Tail(w))

IsSnapshotLink(el) ==
    /\ el.tag = "a" /\ HasAttr(el, "href")
    /\ ~(Attr(el, "href") = <<>> \/ Attr(el, "href") = <<"#">>
         \/ StartsWith(Attr(el, "href"), sJavascriptColon))
    /\ Trim(TextOf(el)) # <<>>
RECURSIVE SnapshotLinks(_)
SnapshotLinks(w) ==
    IF w = <<>> THEN <<>>
    ELSE (IF IsSnapshotLink(Head(w).el)
          THEN <<[type |-> "link", text |-> Slice0(Trim(TextOf(Head(w).el)), SnapshotTextCap),
                  href |-> Slice0(Attr(Head(w).el, "href"), SnapshotHrefCap)]>>
          ELSE <<>>) \o SnapshotLinks(Tail(w))

RECURSIVE SnapshotInputs(_)
SnapshotInputs(w) ==
    IF w = <<>> THEN <<>>
    ELSE LET inp == Head(w).el
         IN  (IF IsField(inp) /\ Attr(inp, "name") # <<>> /\ ToLowerCase(Attr(inp, "type")) # sHidden
              THEN <<[name |-> Attr(inp, "name"),
                      label |-> Or(Attr(inp, "aria-label"), Or(Attr(inp, "placeholder"), Attr(inp, "name"))),
                      type |-> ToLowerCase(Or(Attr(inp, "type"), sText))]>>
              ELSE <<>>) \o SnapshotInputs(Tail(w))
SnapshotSubmitText(form) ==
    LET w == Walk(form.kids, TRUE)
        hits == {i \in DOMAIN w : IsSubmitControl(w[i].el)}
        first == CHOOSE i \in hits : \A j \in hits : i <= j
    IN  Or(IF hits = {} THEN <<>> ELSE Trim(TextOf(w[first].el)), sSubmitCap)
RECURSIVE SnapshotForms(_)
SnapshotForms(w) ==
    IF w = <<>> THEN <<>>
    ELSE (IF Head(w).el.tag = "form"
          THEN <<[type |-> "form", submitLabel |-> SnapshotSubmitText(Head(w).el),
                  inputs |-> SnapshotInputs(Walk(Head(w).el.kids, TRUE))]>>
          ELSE <<>>) \o SnapshotForms(Tail(w))
RECURSIVE TitleOf(_)
TitleOf(w) ==
    IF w = <<>> THEN <<>>
    ELSE (IF Head(w).el.tag = "title" THEN TextOf(Head(w).el) ELSE <<>>) \o TitleOf(Tail(w))

\* the value getSnapshot returns for a page
SnapshotOf(pg) ==
    LET w == Elements(pg.doc)
    IN  [url |-> pg.url,
         title |-> Trim(TitleOf(w)),
         buttons |-> Slice0(SnapshotButtons(w), ButtonsCap),
         links |-> Slice0(SnapshotLinks(w), LinksCap),
         forms |-> SnapshotForms(w)]

\* about:blank, the page of a fresh browser
BlankPage == [url |-> <<"a","b","o","u","t",":","b","l","a","n","k">>, doc |-> <<>>]

\* the module state and the browser, as a call finds or leaves them
EmptySession ==
    [browser |-> NoHandle, page |-> NoHandle, started |-> 0, open |-> {}, dom |-> BlankPage, filled |-> {}]
Session ==
    [browser |-> browser, page |-> page, started |-> started, open |-> open, dom |-> dom, filled |-> filled]
SessionAfter ==
    [browser |-> browser', page |-> page', started |-> started', open |-> open', dom |-> dom', filled |-> filled']

\* no call has returned yet
NoCall ==
    [id |-> 0, op |-> "none", arg |-> <<>>, ok |-> TRUE, message |-> "", log |-> <<>>,
     attempts |-> 0, awaits |-> 0, pre |-> EmptySession, post |-> EmptySession, ret |-> <<>>,
     fields |-> <<>>, i |-> 1]

(***************************************************************************)
(* Inputs of generateContract: documents built from a pool of elements,    *)
(* and lists of discovered calls.                                          *)
(***************************************************************************)
El(tag, attrs, text, kids) == [tag |-> tag, attrs |-> attrs, text |-> text, kids |-> kids]

sJoin == <<"J","o","i","n">>
sEmail == <<"e","m","a","i","l">>
sPost == <<"p","o","s","t">>
\* six times "/docs": a path of exactly PathSlugCap characters
sDocs == <<"/","d","o","c","s">>
sPath30 == sDocs \o sDocs \o sDocs \o sDocs \o sDocs \o sDocs
sOrigin == <<"h","t","t","p","s",":","/","/","x",".","i","o">>

\* <form method="post"><input name="email" type="email" required>
\*   <button type="submit">Join</button></form>
FormJoin ==
    El("form", <<<<"method", sPost>>>>, <<>>,
       <<El("input", <<<<"name", sEmail>>, <<"type", sEmail>>, <<"required", <<>>>>>>, <<>>, <<>>),
         El("button", <<<<"type", sSubmit>>>>, sJoin, <<>>)>>)
\* <form><input name="q"></form>
FormBare == El("form", <<>>, <<>>, <<El("input", <<<<"name", <<"q">>>>>>, <<>>, <<>>)>>)
\* <button> Join </button>
BtnJoin == El("button", <<>>, <<" ">> \o sJoin \o <<" ">>, <<>>)
\* <a href="https://x.io/docs/docs/docs/docs/docs/docs/1"></a>
LinkA == El("a", <<<<"href", sOrigin \o sPath30 \o <<"/","1">>>>>>, <<>>, <<>>)
\* <a href="/docs/docs/docs/docs/docs/docs/2"></a>
LinkB == El("a", <<<<"href", sPath30 \o <<"/","2">>>>>>, <<>>, <<>>)
\* <a href="/x">Api 2</a>
LinkApi2 == El("a", <<<<"href", <<"/","x">>>>>>, <<"A","p","i"," ","2">>, <<>>)

\* <form><input name="q"><button type="submit">!!</button></form>
FormBang ==
    El("form", <<>>, <<>>,
       <<El("input", <<<<"name", <<"q">>>>>>, <<>>, <<>>),
         El("button", <<<<"type", sSubmit>>>>, <<"!","!">>, <<>>)>>)

ElemPool == {FormJoin, FormBare, FormBang, BtnJoin, LinkA, LinkB, LinkApi2}

\* bodySchema: undefined, or the entries of an inferred schema
NoSchema == [has |-> FALSE, entries |-> <<>>]

\* POST https://x.io/api/search, with a body schema
ApiSearch ==
    [method |-> sPOST,
     url |-> sOrigin \o <<"/","a","p","i","/","s","e","a","r","c","h">>,
     bodySchema |-> [has |-> TRUE, entries |-> <<<<<<"q">>, sString>>>>]]
\* a call whose url the URL constructor rejects
ApiRelative == [method |-> sGET, url |-> <<"/","x","?","p","=","1">>, bodySchema |-> NoSchema]

ApiPool == {ApiSearch, ApiRelative}

MaxElems == 3
MaxApis == 1

SeqsUpTo(S, n) == UNION {[1..k -> S] : k \in 0..n}

\* The inputs of the repeated calls: short documents, with and without a
\* hint, with and without a call whose name falls back to api_N
RepeatElems == 1
RepeatCalls == 3
sMyShop == <<"m","y"," ","s","h","o","p">>
Contexts == {Undefined, sMyShop}
RepeatPages == SeqsUpTo({FormJoin, BtnJoin, LinkApi2}, RepeatElems)
RepeatOptionSets ==
    {[context |-> c, discoveredApis |-> a] : c \in Contexts, a \in {<<>>, <<ApiRelative>>}}

(***************************************************************************)
(* Initial states                                                          *)
(***************************************************************************)
NoOptions == [context |-> Undefined, discoveredApis |-> <<>>]
NoContract == [contractName |-> <<>>, actions |-> <<>>, apiEndpoints |-> <<>>]

\* fetchWithApiDiscovery has not returned / the value it returned; the same
\* for the list as it stood when the waitAfterLoad timer fired
NotReturned == [done |-> FALSE, discoveredApis |-> <<>>]
\* runAgentTurn has not been called
AgentIdle ==
    [pc |-> "idle", copy |-> 279, turn |-> 0, currentMessages |-> <<>>, tool_calls |-> <<>>,
     k |-> 0, out |-> Null, modelCalls |-> 0, executed |-> <<>>, wide |-> 0]

InitInfer ==
    /\ jsonBody = JNull /\ inferred = <<>> /\ inferPc = "idle"
\* the browser is up, the handler registered, page.goto under way
InitCapture ==
    /\ capPc = "loading" /\ discoveredApis = <<>> /\ seen = {} /\ returned = NotReturned
    /\ settled = NotReturned
    /\ nEvents = 0 /\ firstSample = {} /\ laterSeen = {}
    /\ InitInfer
    /\ agent = AgentIdle
InitSession ==
    /\ browser = NoHandle /\ page = NoHandle /\ started = 0 /\ open = {}
    /\ dom = BlankPage /\ filled = {} /\ calls = {} /\ last = NoCall /\ nCalls = 0
    /\ overlapped = FALSE
\* no call of generateContract yet
InitIdle ==
    /\ html = <<>> /\ options = NoOptions /\ gcPc = "idle"
    /\ contract = NoContract /\ usedActions = {} /\ history = <<>>

\* a first call of generateContract(html, options) has been made
InitContract ==
    /\ \E n \in 0..MaxElems : html \in [1..n -> ElemPool]
    /\ \E n \in 0..MaxApis : \E a \in [1..n -> ApiPool] :
            options = [context |-> Undefined, discoveredApis |-> a]
    /\ gcPc = "called"
    /\ contract = NoContract /\ usedActions = {} /\ history = <<>>
    /\ InitCapture /\ InitSession
InitRepeat ==
    /\ html \in RepeatPages /\ options \in RepeatOptionSets /\ gcPc = "called"
    /\ contract = NoContract /\ usedActions = {} /\ history = <<>>
    /\ InitCapture /\ InitSession
Init == InitIdle /\ InitCapture /\ InitSession

(***************************************************************************)
(* generateContract                                                        *)
(***************************************************************************)
\* The call in hand runs to its return.
GenerateContract ==
    /\ gcPc = "called"
    /\ \E r \in {generateContract(html, options)} :
        /\ contract' = r.out
        /\ usedActions' = r.used
        /\ history' = Append(history, [html |-> html, options |-> options, contract |-> r.out])
    /\ gcPc' = "returned"
    /\ UNCHANGED <<html, options, capVars, sessVars, agent>>

\* The caller calls again with arguments of its choice.
CallAgain(doc, opts) ==
    /\ gcPc = "returned"
    /\ html' = doc
    /\ options' = opts
    /\ gcPc' = "called"
    /\ UNCHANGED <<contract, usedActions, history, capVars, sessVars, agent>>

NextContract == GenerateContract

SpecContract == InitContract /\ [][NextContract]_vars

Earlier == {[html |-> history[i].html, options |-> history[i].options] : i \in DOMAIN history}

NextRepeat ==
    \/ GenerateContract
    \/ /\ Len(history) < RepeatCalls
       /\ \E doc \in RepeatPages, opts \in RepeatOptionSets :
            /\ Len(history) >= 2 => [html |-> doc, options |-> opts] \in Earlier
            /\ CallAgain(doc, opts)

SpecRepeat == InitRepeat /\ [][NextRepeat]_vars

(***************************************************************************)
(* Claims about generateContract                                           *)
(***************************************************************************)
Returned == gcPc = "returned"
Groups == extractInteractiveGroups(html)
\* every name of the contract in hand: actions, then apiEndpoints
AllNames ==
    [i \in 1..Len(contract.actions) |-> contract.actions[i].action]
    \o [i \in 1..Len(contract.apiEndpoints) |-> contract.apiEndpoints[i].action]
NamesBefore(i) == {contract.actions[m].action : m \in 1..(i - 1)}
Numbered(base, n) == base \o <<"_">> \o NumStr(n)

\* C1: all action names of one generateContract call, in actions and in
\* apiEndpoints, are pairwise distinct when compared case-insensitively.
C1_NamesPairwiseDistinct ==
    Returned =>
        \A i, j \in DOMAIN AllNames :
            i < j => ToLowerCase(AllNames[i]) # ToLowerCase(AllNames[j])

\* C2: two calls with identical markup and options return identical
\* contracts (name, action names, order), whatever calls came before or
\* between them.
C2_RepeatedCallsAgree ==
    \A i, j \in DOMAIN history :
        (history[i].html = history[j].html /\ history[i].options = history[j].options)
            => history[i].contract = history[j].contract
\* a call repeated after a call with other arguments that produced names
C2_Witness ==
    /\ Len(history) = 3
    /\ history[1].html = history[3].html /\ history[1].options = history[3].options
    /\ history[2].html # history[1].html
    /\ history[2].contract.actions # <<>>
    /\ history[3].contract.actions # <<>>
    /\ history[3].contract.apiEndpoints # <<>>

\* The buttons that are nested in a form and whose non-empty slug is one of
\* `formNames`, and the others, in document order.
NestedDuplicate(btn, formNames) ==
    btn.inForm /\ ButtonBase(btn) # <<>> /\ ButtonBase(btn) \in formNames
RECURSIVE OtherButtons(_, _)
OtherButtons(bs, formNames) ==
    IF bs = <<>> THEN <<>>
    ELSE (IF NestedDuplicate(Head(bs), formNames) THEN <<>> ELSE <<Head(bs)>>)
         \o OtherButtons(Tail(bs), formNames)

C6_JoinFormContract ==
    (Returned /\ html = <<FormJoin>>) =>
        /\ Len(contract.actions) = 1
        /\ contract.actions[1].action = <<"j","o","i","n">>
        /\ contract.actions[1].method = <<"P","O","S","T">>
        /\ contract.actions[1].endpoint = <<"/","a","g","e","n","t","/","j","o","i","n">>
        /\ contract.actions[1].schema = <<<<sEmail, <<"s","t","r","i","n","g">>>>>>
C6_Witness == Returned /\ html = <<FormJoin>>

\* the slug both pool links without text and id reduce to
sUDocs == <<"_","d","o","c","s">>
sX == sUDocs \o sUDocs \o sUDocs \o sUDocs \o sUDocs \o sUDocs
Bare(link) == link.text = <<>> /\ link.id = Null
\* how many of the first j links are bare
BareUpTo(links, j) == Cardinality({m \in 1..j : Bare(links[m])})

\* C7: the k links without text and id whose hrefs reduce to the slug X are
\* named X, X_2, ..., X_k in document order; and every link name is its
\* base name if no earlier action has it, else base_n for the least n >= 2
\* that no earlier action has; the name is recorded as used.
C7_LinkNamesNumbered ==
    Returned =>
        \A links \in {Groups.links} :
        \A j \in DOMAIN links :
            \A base \in {LinkBase(links[j])} :
            LET off == Len(contract.actions) - Len(links)
                name == contract.actions[off + j].action
                U == NamesBefore(off + j)
            IN  /\ Bare(links[j])
                    => name = IF BareUpTo(links, j) = 1 THEN sX
                              ELSE Numbered(sX, BareUpTo(links, j))
                /\ IF base \notin U THEN name = base
                   ELSE \E n \in 2..(Len(contract.actions) + 1) :
                            /\ name = Numbered(base, n)
                            /\ name \notin U
                            /\ \A m \in 2..(n - 1) : Numbered(base, m) \in U
                /\ name \in usedActions
C7_Witness ==
    /\ Returned /\ html = <<LinkA, LinkB, LinkA>>
    /\ contract.actions[1].action = sX
    /\ contract.actions[2].action = sX \o <<"_","2">>
    /\ contract.actions[3].action = sX \o <<"_","3">>

(***************************************************************************)
(* inferSchemaFromBody, one call on a drawn body                           *)
(***************************************************************************)
sQ == <<"q">>
sMax == <<"m","a","x">>
sTags == <<"t","a","g","s">>
sActive == <<"a","c","t","i","v","e">>
sNote == <<"n","o","t","e">>
sRedShoes == <<"r","e","d"," ","s","h","o","e","s">>
\* the i-th key of a drawn body
BodyKey(i) ==
    CASE i = 1 -> sQ [] i = 2 -> sMax [] i = 3 -> sTags [] i = 4 -> sActive [] i = 5 -> sNote
      [] OTHER -> <<"k">> \o NumStr(i)
ValuePool ==
    {JStr(sRedShoes), JNum(100), JArr(<<JStr(<<"a">>)>>), JBool(TRUE), JNull,
     JObj(<<<<sQ, JNum(1)>>>>)}
MaxBodyKeys == 5
InitInferCalled ==
    /\ \/ \E n \in 0..MaxBodyKeys : \E f \in [1..n -> ValuePool] :
            jsonBody = JObj([i \in 1..n |-> <<BodyKey(i), f[i]>>])
       \/ jsonBody \in ValuePool
    /\ inferred = <<>> /\ inferPc = "called"
    /\ capPc = "loading" /\ discoveredApis = <<>> /\ seen = {} /\ returned = NotReturned
    /\ settled = NotReturned
    /\ nEvents = 0 /\ firstSample = {} /\ laterSeen = {}
    /\ InitIdle /\ InitSession
    /\ agent = AgentIdle

InferSchemaFromBody ==
    /\ inferPc = "called"
    /\ inferred' = inferSchemaFromBody(jsonBody)
    /\ inferPc' = "returned"
    /\ UNCHANGED <<jsonBody, gcVars, agent, sessVars>>
    /\ UNCHANGED <<capPc, discoveredApis, seen, returned, settled, nEvents, firstSample, laterSeen>>

NextInfer == InferSchemaFromBody
SpecInfer == InitInferCalled /\ [][NextInfer]_vars

\* the type the claim's table gives a value of each kind
TableType(t) ==
    CASE t = "null" -> <<"s","t","r","i","n","g">>
      [] t = "string" -> <<"s","t","r","i","n","g">>
      [] t = "number" -> <<"n","u","m","b","e","r">>
      [] t = "boolean" -> <<"b","o","o","l","e","a","n">>
      [] t = "array" -> <<"a","r","r","a","y">>
      [] t = "object" -> <<"o","b","j","e","c","t">>
ExampleBody ==
    JObj(<<<<sQ, JStr(sRedShoes)>>, <<sMax, JNum(100)>>, <<sTags, JArr(<<JStr(<<"a">>)>>)>>,
           <<sActive, JBool(TRUE)>>, <<sNote, JNull>>>>)
ExampleSchema ==
    <<<<sQ, <<"s","t","r","i","n","g">>>>, <<sMax, <<"n","u","m","b","e","r">>>>,
      <<sTags, <<"a","r","r","a","y">>>>, <<sActive, <<"b","o","o","l","e","a","n">>>>,
      <<sNote, <<"s","t","r","i","n","g">>>>>>

sUrlA == sOrigin \o <<"/","a">>
sJsonQ == <<"{","\"","q","\"",":","1","}">>
sJsonTags == <<"{","\"","t","a","g","s","\"",":","[","]","}">>
sNotJson == <<"q","=","1","&">>
sAppJson == <<"a","p","p","l","i","c","a","t","i","o","n","/","j","s","o","n">>

\* what a request answers to postData(), postDataJSON() and headers()
BodyNone == [postData |-> Null, json |-> JNull, throws |-> FALSE, contentType |-> <<>>]
BodyQ == [postData |-> sJsonQ, json |-> JObj(<<<<sQ, JNum(1)>>>>), throws |-> FALSE, contentType |-> sAppJson]
BodyTags == [postData |-> sJsonTags, json |-> JObj(<<<<sTags, JArr(<<>>)>>>>), throws |-> FALSE, contentType |-> sAppJson]
BodyNotJson == [postData |-> sNotJson, json |-> JNull, throws |-> TRUE, contentType |-> sAppJson]

ResourceTypes == {"xhr", "fetch", "document"}
Methods == {sGET, sPOST}
Bodies == {BodyNone, BodyQ, BodyTags, BodyNotJson}
Requests ==
    {[resourceType |-> t, method |-> m, url |-> sUrlA, body |-> b] :
        t \in ResourceTypes, m \in Methods, b \in Bodies}

MaxEvents == 4

\* the sample body a record of this request would carry
SampleOf(request) == ApiRecord(request).postDataSample
IsApiCall(request) == request.resourceType \in API_RESOURCE_TYPES
FirstOf(key) == {f \in firstSample : f.key = key}

\* page.on('requestfinished', ...): one event, the handler run to its end
RequestFinished(request) ==
    /\ capPc \in {"loading", "settling", "reading", "closing"}
    /\ nEvents < MaxEvents
    /\ nEvents' = nEvents + 1
    /\ IF HandlerKeeps(request)
       THEN /\ seen' = seen \cup {RequestKey(request.method, request.url)}
            /\ discoveredApis' = Append(discoveredApis, ApiRecord(request))
       ELSE UNCHANGED <<seen, discoveredApis>>
    \* what the page has sent, kept apart from the handler's own bookkeeping
    /\ \E key \in {RequestKey(request.method, request.url)} :
        IF ~IsApiCall(request) THEN UNCHANGED <<firstSample, laterSeen>>
        ELSE IF FirstOf(key) = {}
        THEN /\ firstSample' = firstSample \cup {[key |-> key, sample |-> SampleOf(request)]}
             /\ UNCHANGED laterSeen
        ELSE /\ laterSeen' = IF \E f \in FirstOf(key) : f.sample # SampleOf(request)
                             THEN laterSeen \cup {key} ELSE laterSeen
             /\ UNCHANGED firstSample
    /\ UNCHANGED <<capPc, returned, settled, gcVars, agent, inferVars, sessVars>>

\* await page.goto(url, ...) resolves
GotoResolves ==
    /\ capPc = "loading"
    /\ capPc' = "settling"
    /\ UNCHANGED <<discoveredApis, seen, returned, settled, nEvents, firstSample, laterSeen, gcVars, agent, inferVars, sessVars>>

\* await page.goto(url, ...) rejects: the finally block closes the browser
GotoRejects ==
    /\ capPc = "loading"
    /\ capPc' = "closing"
    /\ UNCHANGED <<discoveredApis, seen, returned, settled, nEvents, firstSample, laterSeen, gcVars, agent, inferVars, sessVars>>

\* the waitAfterLoad timer fires
SettleDone ==
    /\ capPc = "settling"
    /\ capPc' = "reading"
    \* what the list holds at this moment, kept for comparison
    /\ settled' = [done |-> TRUE, discoveredApis |-> discoveredApis]
    /\ UNCHANGED <<discoveredApis, seen, returned, nEvents, firstSample, laterSeen, gcVars, agent, inferVars, sessVars>>

\* page.content() resolves: the return value takes a copy of the list
ReturnCopy ==
    /\ capPc = "reading"
    /\ returned' = [done |-> TRUE, discoveredApis |-> discoveredApis]
    /\ capPc' = "closing"
    /\ UNCHANGED <<discoveredApis, seen, settled, nEvents, firstSample, laterSeen, gcVars, agent, inferVars, sessVars>>

\* finally: browser.close() resolves, no event reaches the handler any more
BrowserClosed ==
    /\ capPc = "closing"
    /\ capPc' = "closed"
    /\ UNCHANGED <<discoveredApis, seen, returned, settled, nEvents, firstSample, laterSeen, gcVars, agent, inferVars, sessVars>>

NextCapture ==
    \/ \E request \in Requests : RequestFinished(request)
    \/ GotoResolves
    \/ GotoRejects
    \/ SettleDone
    \/ ReturnCopy
    \/ BrowserClosed

SpecCapture == Init /\ [][NextCapture]_vars

KeyOf(rec) == RequestKey(rec.method, rec.url)
\* a list holds one record per pair sent so far, each with the pair's first sample
OnePerPairFirstWins(list) ==
    /\ \A i, j \in DOMAIN list : KeyOf(list[i]) = KeyOf(list[j]) => i = j
    /\ \A i \in DOMAIN list : [key |-> KeyOf(list[i]), sample |-> list[i].postDataSample] \in firstSample

\* C4: in one capture, whatever the order of the requestfinished events and
\* wherever they fall between the awaits, discoveredApis (and the copy that
\* is returned) holds at most one record per (method, url) pair, one for
\* every pair an xhr/fetch request was seen for, and the record carries the
\* sample body of the first such request; later requests of the pair leave
\* the record as it is.
C4_OneRecordPerPairFirstWins ==
    /\ OnePerPairFirstWins(discoveredApis)
    /\ Len(discoveredApis) = Cardinality(firstSample)
    /\ returned.done =>
        /\ OnePerPairFirstWins(returned.discoveredApis)
        /\ Len(returned.discoveredApis) <= Len(discoveredApis)
        /\ returned.discoveredApis = SubSeq(discoveredApis, 1, Len(returned.discoveredApis))

\* the capture has returned a record for a pair that was later requested
\* again with another body
C4_Witness ==
    /\ capPc = "closed"
    /\ returned.done
    /\ \E i \in DOMAIN returned.discoveredApis : KeyOf(returned.discoveredApis[i]) \in laterSeen

(***************************************************************************)
(* browserSession: the calls.  A call runs from its first statement to its *)
(* first await in one step, and from one await to the next (or to its      *)
(* return) in one step.  Callers keep to one interaction at a time; launch *)
(* and close calls may overlap each other.                                 *)
(***************************************************************************)
sShopUrl == sOrigin \o <<"/","s","h","o","p">>
sPairUrl == sOrigin \o <<"/","p","a","i","r">>
sGo == <<"g","o">>
sNope == <<"N","o","p","e">>
\* <title>Shop</title> <form ...Join...> <a href="/x">Api 2</a> <button id="go">Go</button>
ShopDoc ==
    <<El("title", <<>>, <<"S","h","o","p">>, <<>>), FormJoin, LinkApi2,
      El("button", <<<<"id", sGo>>>>, <<"G","o">>, <<>>)>>
\* a page with two buttons named Join
PairDoc == <<BtnJoin, FormJoin>>
Urls == {sShopUrl, sPairUrl}
\* the document the site serves under a url
SiteDoc(u) == [url |-> u, doc |-> IF u = sShopUrl THEN ShopDoc ELSE PairDoc]

ClickInputs ==
    {sJoin, <<" ">> \o sJoin \o <<" ">>, sNope, <<" ">> \o sNope \o <<" ">>,
     <<"#">> \o sGo, <<"#">> \o sNope, <<" ", " ">>, <<>>, Null}
FillInputs == {sEmail, sNope}
FillValues == {<<"a">>}
FieldSets ==
    {<<>>, <<<<sEmail, <<"a">>>>>>, <<<<sNope, <<"a">>>>, <<sEmail, <<"a">>>>>>,
     <<<<sEmail, <<"a">>>>, <<sNope, <<"a">>>>, <<sEmail, <<"b">>>>>>}

MaxCalls == 4
MaxInFlight == 2

LifecycleOps == {"launch", "close"}
InteractionOps == {"navigate", "click", "fill", "fillForm", "getSnapshot"}

\* a caller may make this call now
MayCall(op) ==
    /\ nCalls < MaxCalls
    /\ Cardinality(calls) < MaxInFlight
    /\ \/ calls = {}
       \/ op \in LifecycleOps /\ \A c \in calls : c.op \in LifecycleOps
       \/ op \in InteractionOps /\ NotLaunched(page)

NewCall(op, arg, value, fields, headed) ==
    [id |-> nCalls + 1, op |-> op, arg |-> arg, value |-> value, fields |-> fields,
     headed |-> headed, pc |-> "start", h |-> NoHandle, i |-> 1, loc |-> ClickLocator(<<>>),
     attempts |-> 0, awaits |-> 0, results |-> <<>>, pre |-> Session]

\* the call is made: it is counted, and noted if another call is in flight
Called ==
    /\ nCalls' = nCalls + 1
    /\ overlapped' = (overlapped \/ calls # {})

\* the call suspends at an await / resumes from one
Suspend(c, d) ==
    /\ calls' = (calls \ {c}) \cup {d}
    /\ UNCHANGED last
Resumed(c) == [c EXCEPT !.awaits = @ + 1]

\* the call returns (ok) or throws (~ok)
Return(c, d, ok, message, log, ret) ==
    /\ calls' = calls \ {c}
    /\ last' = [id |-> d.id, op |-> d.op, arg |-> d.arg, ok |-> ok, message |-> message, log |-> log,
                attempts |-> d.attempts, awaits |-> d.awaits, pre |-> d.pre, post |-> SessionAfter,
                ret |-> ret, fields |-> d.fields, i |-> d.i]

\* launch(options): lines 21-23, up to `await chromium.launch(...)`
LaunchCall(headed) ==
    /\ MayCall("launch")
    /\ Called
    /\ UNCHANGED <<browser, page, started, open, dom, filled>>
    /\ \E c \in {NewCall("launch", <<>>, <<>>, <<>>, headed)} :
        IF BrowserOpen(browser)
        THEN Return(c, c, TRUE, MsgAlreadyOpen, <<>>, <<>>)
        ELSE Suspend(c, [c EXCEPT !.pc = "chromium.launch"])
    /\ UNCHANGED <<gcVars, agent, capVars>>

\* chromium.launch resolves: a browser process runs and its handle is stored
ChromiumLaunchResolves(c) ==
    /\ c.op = "launch" /\ c.pc = "chromium.launch"
    /\ started' = started + 1
    /\ open' = open \cup {started + 1}
    /\ browser' = started + 1
    /\ Suspend(c, [Resumed(c) EXCEPT !.pc = "newContext", !.h = started + 1])
    /\ UNCHANGED <<page, dom, filled, nCalls, overlapped, gcVars, agent, capVars>>

ChromiumLaunchRejects(c) ==
    /\ c.op = "launch" /\ c.pc = "chromium.launch"
    /\ UNCHANGED <<browser, page, started, open, dom, filled>>
    /\ Return(c, Resumed(c), FALSE, MsgLaunchFailed, <<>>, <<>>)
    /\ UNCHANGED <<nCalls, overlapped, gcVars, agent, capVars>>

\* browser.newContext(...) resolves, on a browser that is still running
NewContextResolves(c) ==
    /\ c.op = "launch" /\ c.pc = "newContext"
    /\ c.h \in open
    /\ Suspend(c, [Resumed(c) EXCEPT !.pc = "newPage"])
    /\ UNCHANGED <<browser, page, started, open, dom, filled, nCalls, overlapped, gcVars, agent, capVars>>

NewContextRejects(c) ==
    /\ c.op = "launch" /\ c.pc = "newContext"
    /\ UNCHANGED <<browser, page, started, open, dom, filled>>
    /\ Return(c, Resumed(c), FALSE, MsgContextFailed, <<>>, <<>>)
    /\ UNCHANGED <<nCalls, overlapped, gcVars, agent, capVars>>

\* context.newPage() resolves: the page handle is stored, launch returns
NewPageResolves(c) ==
    /\ c.op = "launch" /\ c.pc = "newPage"
    /\ c.h \in open
    /\ page' = c.h
    /\ dom' = BlankPage
    /\ filled' = {}
    /\ UNCHANGED <<browser, started, open>>
    /\ Return(c, Resumed(c), TRUE, IF c.headed THEN MsgOpenedVisible ELSE MsgOpenedHeadless, <<>>, <<>>)
    /\ UNCHANGED <<nCalls, overlapped, gcVars, agent, capVars>>

NewPageRejects(c) ==
    /\ c.op = "launch" /\ c.pc = "newPage"
    /\ UNCHANGED <<browser, page, started, open, dom, filled>>
    /\ Return(c, Resumed(c), FALSE, MsgPageFailed, <<>>, <<>>)
    /\ UNCHANGED <<nCalls, overlapped, gcVars, agent, capVars>>

\* close(): lines 163-164 up to `await browser.close()`, or line 169
CloseCall ==
    /\ MayCall("close")
    /\ Called
    /\ UNCHANGED <<browser, page, started, open, dom, filled>>
    /\ \E c \in {NewCall("close", <<>>, <<>>, <<>>, FALSE)} :
        IF BrowserOpen(browser)
        THEN Suspend(c, [c EXCEPT !.pc = "browser.close", !.h = browser])
        ELSE Return(c, c, TRUE, MsgNoBrowser, <<>>, <<>>)
    /\ UNCHANGED <<gcVars, agent, capVars>>

\* variant: a close that clears the browser handle and keeps the page handle
BrowserCloseKeepsPage(c) ==
    /\ c.op = "close" /\ c.pc = "browser.close"
    /\ open' = open \ {c.h}
    /\ browser' = NoHandle
    /\ UNCHANGED <<page, dom, filled, started>>
    /\ Return(c, Resumed(c), TRUE, MsgClosed, <<>>, <<>>)
    /\ UNCHANGED <<nCalls, overlapped, gcVars, agent, capVars>>
\* browser.close() resolves: lines 165-167
BrowserCloseResolves(c) ==
    /\ c.op = "close" /\ c.pc = "browser.close"
    /\ open' = open \ {c.h}
    /\ browser' = NoHandle
    /\ page' = NoHandle
    /\ dom' = BlankPage
    /\ filled' = {}
    /\ UNCHANGED started
    /\ Return(c, Resumed(c), TRUE, MsgClosed, <<>>, <<>>)
    /\ UNCHANGED <<nCalls, overlapped, gcVars, agent, capVars>>

\* browser.close() rejects: the handles stay, the process may be gone or not
BrowserCloseRejects(c) ==
    /\ c.op = "close" /\ c.pc = "browser.close"
    /\ open' \in {open, open \ {c.h}}
    /\ UNCHANGED <<browser, page, started, dom, filled>>
    /\ Return(c, Resumed(c), FALSE, MsgCloseFailed, <<>>, <<>>)
    /\ UNCHANGED <<nCalls, overlapped, gcVars, agent, capVars>>

\* navigate(url): lines 41-43, up to `await page.goto(...)`
NavigateCall(u) ==
    /\ MayCall("navigate")
    /\ Called
    /\ UNCHANGED <<browser, page, started, open, dom, filled>>
    /\ \E c \in {NewCall("navigate", u, <<>>, <<>>, FALSE)} :
        IF NotLaunched(page)
        THEN Return(c, c, FALSE, MsgNotLaunched, <<>>, <<>>)
        ELSE Suspend(c, [c EXCEPT !.pc = "page.goto"])
    /\ UNCHANGED <<gcVars, agent, capVars>>

\* page.goto resolves: the page shows the document, lines 44-49 return
PageGotoResolves(c) ==
    /\ c.op = "navigate" /\ c.pc = "page.goto"
    /\ dom' = SiteDoc(c.arg)
    /\ filled' = {}
    /\ UNCHANGED <<browser, page, started, open>>
    /\ Return(c, Resumed(c), TRUE, "", <<>>,
              [url |-> c.arg, title |-> SnapshotOf(SiteDoc(c.arg)).title])
    /\ UNCHANGED <<nCalls, overlapped, gcVars, agent, capVars>>

PageGotoRejects(c) ==
    /\ c.op = "navigate" /\ c.pc = "page.goto"
    /\ UNCHANGED <<browser, page, started, open, dom, filled>>
    /\ Return(c, Resumed(c), FALSE, MsgGotoFailed, <<>>, <<>>)
    /\ UNCHANGED <<nCalls, overlapped, gcVars, agent, capVars>>

\* String(descriptionOrSelector || '').trim()
ClickText(x) == Trim(IF Truthy(x) THEN x ELSE <<>>)

\* click(descriptionOrSelector): lines 57-72, up to `await locator.click(...)`
ClickCall(x) ==
    /\ MayCall("click")
    /\ Called
    /\ UNCHANGED <<browser, page, started, open, dom, filled>>
    /\ \E c \in {NewCall("click", x, <<>>, <<>>, FALSE)} :
        IF NotLaunched(page)
        THEN Return(c, c, FALSE, MsgNotLaunched, <<>>, <<>>)
        ELSE IF ClickText(x) = <<>>
        THEN Return(c, c, FALSE, MsgClickRequired, <<>>, <<>>)
        ELSE Suspend(c, [c EXCEPT !.pc = "locator.click", !.loc = ClickLocator(ClickText(x)),
                                  !.attempts = @ + 1])
    /\ UNCHANGED <<gcVars, agent, capVars>>

\* locator.click({ timeout: 10000 }) settles; a click that lands may load
\* another document
LocatorClickSettles(c) ==
    /\ c.op = "click" /\ c.pc = "locator.click"
    /\ UNCHANGED <<browser, page, started, open>>
    /\ \E outcome \in {ClickOutcome(c.loc, Elements(dom.doc))} :
        IF outcome = "clicked"
        THEN /\ \E pg \in {dom} \cup {SiteDoc(u) : u \in Urls} :
                    /\ dom' = pg
                    /\ filled' = IF pg = dom THEN filled ELSE {}
             /\ Return(c, Resumed(c), TRUE, "", <<>>, [clicked |-> c.loc.s])
        ELSE /\ UNCHANGED <<dom, filled>>
             /\ Return(c, Resumed(c), FALSE,
                       IF outcome = "timeout" THEN MsgClickTimeout ELSE MsgStrict,
                       sWaitingFor \o LocatorText(c.loc), <<>>)
    /\ UNCHANGED <<nCalls, overlapped, gcVars, agent, capVars>>

\* the values of the page's fields after one field is filled
Typed(target, value) == {f \in filled : f.el # target} \cup {[el |-> target, value |-> value]}

\* fill(fieldIdentifier, value): lines 82-88, up to `await locator.fill(...)`
FillCall(id, value) ==
    /\ MayCall("fill")
    /\ Called
    /\ UNCHANGED <<browser, page, started, open, dom, filled>>
    /\ \E c \in {NewCall("fill", id, value, <<>>, FALSE)} :
        IF NotLaunched(page)
        THEN Return(c, c, FALSE, MsgNotLaunched, <<>>, <<>>)
        ELSE Suspend(c, [c EXCEPT !.pc = "locator.fill"])
    /\ UNCHANGED <<gcVars, agent, capVars>>

\* locator.fill(String(value), { timeout: 8000 }) settles
LocatorFillSettles(c) ==
    /\ c.op = "fill" /\ c.pc = "locator.fill"
    /\ UNCHANGED <<browser, page, started, open, dom>>
    /\ \E outcome \in {FillOutcome(Trim(c.arg), Elements(dom.doc))} :
        IF outcome = "filled"
        THEN /\ \E target \in FillTargets(Trim(c.arg), Elements(dom.doc)) :
                    filled' = Typed(target, c.value)
             /\ Return(c, Resumed(c), TRUE, "", <<>>, [field |-> Trim(c.arg), value |-> c.value])
        ELSE /\ UNCHANGED filled
             /\ Return(c, Resumed(c), FALSE,
                       IF outcome = "timeout" THEN MsgFillTimeout ELSE MsgStrict,
                       sWaitingFor \o Trim(c.arg), <<>>)
    /\ UNCHANGED <<nCalls, overlapped, gcVars, agent, capVars>>

\* fillForm(fields): lines 97-100, up to the await in the first fill
FillFormCall(fields) ==
    /\ MayCall("fillForm")
    /\ Called
    /\ UNCHANGED <<browser, page, started, open, dom, filled>>
    /\ \E c \in {NewCall("fillForm", <<>>, <<>>, fields, FALSE)} :
        IF NotLaunched(page)
        THEN Return(c, c, FALSE, MsgNotLaunched, <<>>, <<>>)
        ELSE IF fields = <<>>
        THEN Return(c, c, TRUE, "", <<>>, [filled |-> <<>>])
        ELSE Suspend(c, [c EXCEPT !.pc = "fill"])
    /\ UNCHANGED <<gcVars, agent, capVars>>

\* variant: a loop that goes on to the next field when a fill has failed
FillNeverAborts(outcome) == FALSE
\* the rejection of `await fill(name, value)` leaves the loop and fillForm
FillAborts(outcome) == outcome # "filled"
\* `await fill(name, value)` settles for the field in hand: the loop goes
\* on to the next field, ends, or is left by the error of the fill
FillFormFieldSettles(c) ==
    /\ c.op \in {"fillForm", "browser_fill_form"} /\ c.pc = "fill"
    /\ UNCHANGED <<browser, page, started, open, dom>>
    /\ \E name \in {c.fields[c.i][1]}, value \in {c.fields[c.i][2]} :
       \E outcome \in {FillOutcome(Trim(name), Elements(dom.doc))} :
        IF NotLaunched(page)
        THEN /\ UNCHANGED filled
             /\ Return(c, Resumed(c), FALSE, MsgNotLaunched, <<>>, <<>>)
        ELSE IF FillAborts(outcome)
        THEN /\ UNCHANGED filled
             /\ Return(c, Resumed(c), FALSE,
                       IF outcome = "timeout" THEN MsgFillTimeout ELSE MsgStrict,
                       sWaitingFor \o Trim(name), <<>>)
        ELSE /\ IF outcome = "filled"
                THEN \E target \in FillTargets(Trim(name), Elements(dom.doc)) :
                        filled' = Typed(target, value)
                ELSE UNCHANGED filled
             /\ \E d \in {[Resumed(c) EXCEPT !.results = Append(@, [field |-> name, value |-> value]),
                                             !.i = @ + 1]} :
                    IF c.i = Len(c.fields)
                    THEN Return(c, d, TRUE, "", <<>>, [filled |-> d.results])
                    ELSE Suspend(c, d)
    /\ UNCHANGED <<nCalls, overlapped, gcVars, agent, capVars>>

\* getSnapshot(): lines 111-112, up to `await page.content()`
GetSnapshotCall ==
    /\ MayCall("getSnapshot")
    /\ Called
    /\ UNCHANGED <<browser, page, started, open, dom, filled>>
    /\ \E c \in {NewCall("getSnapshot", <<>>, <<>>, <<>>, FALSE)} :
        IF NotLaunched(page)
        THEN Return(c, c, FALSE, MsgNotLaunched, <<>>, <<>>)
        ELSE Suspend(c, [c EXCEPT !.pc = "page.content"])
    /\ UNCHANGED <<gcVars, agent, capVars>>

\* page.content() resolves: lines 113-156
PageContentResolves(c) ==
    /\ c.op = "getSnapshot" /\ c.pc = "page.content"
    /\ UNCHANGED <<browser, page, started, open, dom, filled>>
    /\ Return(c, Resumed(c), TRUE, "", <<>>, SnapshotOf(dom))
    /\ UNCHANGED <<nCalls, overlapped, gcVars, agent, capVars>>

NextSession ==
    \/ \E headed \in BOOLEAN : LaunchCall(headed)
    \/ CloseCall
    \/ \E u \in Urls : NavigateCall(u)
    \/ \E x \in ClickInputs : ClickCall(x)
    \/ \E id \in FillInputs, value \in FillValues : FillCall(id, value)
    \/ \E fields \in FieldSets : FillFormCall(fields)
    \/ GetSnapshotCall
    \/ \E c \in calls : ChromiumLaunchResolves(c)
    \/ \E c \in calls : ChromiumLaunchRejects(c)
    \/ \E c \in calls : NewContextResolves(c)
    \/ \E c \in calls : NewContextRejects(c)
    \/ \E c \in calls : NewPageResolves(c)
    \/ \E c \in calls : NewPageRejects(c)
    \/ \E c \in calls : BrowserCloseResolves(c)
    \/ \E c \in calls : BrowserCloseRejects(c)
    \/ \E c \in calls : PageGotoResolves(c)
    \/ \E c \in calls : PageGotoRejects(c)
    \/ \E c \in calls : LocatorClickSettles(c)
    \/ \E c \in calls : LocatorFillSettles(c)
    \/ \E c \in calls : FillFormFieldSettles(c)
    \/ \E c \in calls : PageContentResolves(c)

SpecSession == Init /\ [][NextSession]_vars

(***************************************************************************)
(* Claims about browserSession.  `last` is the call that returned last,    *)
(* with the session as the call found it (pre) and left it (post).         *)
(***************************************************************************)
\* the label of the click that returned last finds no element, as a
\* selector, as a button name, as a link name or as text
NoStrategyMatches(s, w) ==
    CssMatches(s, w) \cup ButtonNameMatches(s, w) \cup LinkNameMatches(s, w) \cup TextMatches(s, w) = {}
ClickFoundNothing ==
    /\ last.op = "click"
    /\ last.pre.page # NoHandle
    /\ ClickText(last.arg) # <<>>
    /\ NoStrategyMatches(ClickText(last.arg), Elements(last.pre.dom.doc))

Uninitialized(st) == st.browser = NoHandle /\ st.page = NoHandle
\* the call that returned last looked for an element the page does not have
TargetNotFound ==
    /\ last.pre.page # NoHandle
    /\ \/ ClickFoundNothing
       \/ last.op = "fill" /\ FillTargets(Trim(last.arg), Elements(last.pre.dom.doc)) = {}

\* C9: a navigate, click, fill, fillForm or getSnapshot call made while the
\* module is Uninitialized (browser and page both null: never launched, or
\* closed) throws 'Browser not launched' in the step of the call, before any
\* await and any attempt on a page, and leaves the session as it found it;
\* no such call is ever left waiting.  A call on an existing page whose
\* target is not found fails with another error.
C9_UninitializedFailsAtOnce ==
    /\ (last.op \in InteractionOps /\ Uninitialized(last.pre)) =>
        /\ ~last.ok
        /\ last.message = MsgNotLaunched
        /\ last.awaits = 0
        /\ last.attempts = 0
        /\ last.post = last.pre
    /\ \A c \in calls : c.op \in InteractionOps => ~Uninitialized(c.pre)
    /\ TargetNotFound => ~last.ok /\ last.message # MsgNotLaunched

\* an interaction was refused on a session that had been launched and closed
C9_Witness ==
    /\ last.op \in InteractionOps
    /\ Uninitialized(last.pre)
    /\ last.pre.started > 0
    /\ last.message = MsgNotLaunched

\* C10: a launch call that finds the browser handle set returns ok with
\* 'Browser already open' in the step of the call, starts no browser and
\* leaves both handles as they were; as long as calls do not overlap, at
\* most one browser process is running.
C10_LaunchWhileOpenIsIdempotent ==
    /\ (last.op = "launch" /\ last.pre.browser # NoHandle) =>
        /\ last.ok
        /\ last.message = MsgAlreadyOpen
        /\ last.awaits = 0
        /\ last.post = last.pre
    /\ ~overlapped => Cardinality(open) <= 1

\* launch has returned on a session that was open, one call after another
C10_Witness ==
    /\ last.op = "launch"
    /\ last.pre.browser # NoHandle
    /\ last.pre.page # NoHandle
    /\ last.pre.browser \in open
    /\ ~overlapped

(***************************************************************************)
(* generateContract: the order of the lists.  Documents of forms, buttons  *)
(* and links in every order, with lists of up to OrderApis discovered      *)
(* calls.                                                                  *)
(***************************************************************************)
OrderElems == 3
OrderApis == 2
OrderPool == {FormJoin, FormBang, BtnJoin, LinkApi2}

InitOrder ==
    /\ \E n \in 0..OrderElems : html \in [1..n -> OrderPool]
    /\ \E n \in 0..OrderApis : \E a \in [1..n -> ApiPool] :
            options = [context |-> Undefined, discoveredApis |-> a]
    /\ gcPc = "called"
    /\ contract = NoContract /\ usedActions = {} /\ history = <<>>
    /\ InitCapture /\ InitSession

SpecOrder == InitOrder /\ [][NextContract]_vars

\* what an action of `actions` shows of the element it was made from
FromForm(a, form) ==
    /\ a.method = form.method
    /\ a.description = sSubmitColon \o form.submitLabel
    /\ a.schema = buildSchemaFromInputs(form.inputs, <<>>)
FromButton(a, btn) ==
    /\ a.method = sPOST
    /\ a.schema = <<>>
    /\ Truthy(btn.text) => a.description = btn.text
FromLink(a, link) ==
    /\ a.method = sGET
    /\ a.schema = <<>>
    /\ a.description = OrV(link.text, link.href)
FromApi(e, api) ==
    /\ e.method = api.method
    /\ e.url = api.url
    /\ e.bodySchema = api.bodySchema

\* C11: `actions` is the forms in document order, then the buttons that
\* are kept in document order, then the links in document order, and
\* nothing else; `apiEndpoints` is the discovered calls in the order given,
\* and nothing else.
C11_GroupsInOrder ==
    Returned =>
        \A G \in {Groups} :
        \A formNames \in {{contract.actions[i].action : i \in 1..Len(G.forms)}} :
        \A kept \in {OtherButtons(G.buttons, formNames)} :
            /\ Len(contract.actions) = Len(G.forms) + Len(kept) + Len(G.links)
            /\ \A i \in DOMAIN G.forms : FromForm(contract.actions[i], G.forms[i])
            /\ \A k \in DOMAIN kept : FromButton(contract.actions[Len(G.forms) + k], kept[k])
            /\ \A j \in DOMAIN G.links :
                FromLink(contract.actions[Len(G.forms) + Len(kept) + j], G.links[j])
            /\ Len(contract.apiEndpoints) = Len(options.discoveredApis)
            /\ \A i \in DOMAIN options.discoveredApis :
                FromApi(contract.apiEndpoints[i], options.discoveredApis[i])

\* a link ahead of a standalone button ahead of a form in the document,
\* and two discovered calls
C11_Witness ==
    /\ Returned
    /\ html = <<LinkApi2, BtnJoin, FormJoin>>
    /\ options.discoveredApis = <<ApiRelative, ApiSearch>>
    /\ Len(contract.actions) = 3
    /\ Len(contract.apiEndpoints) = 2

(***************************************************************************)
(* extractInteractiveGroups on one form: its method attribute and its      *)
(* fields drawn from the values the type table names.                      *)
(***************************************************************************)
sPut == <<"p","u","t">>
sDialog == <<"d","i","a","l","o","g">>
sGarbage == <<"x","y","z"," ","1">>
\* the method attribute: absent (Null), or its text
MethodPool == {Null, <<>>, sPost, sPOST, <<"P","o","S","t">>, sGet, sGET, sPut, sDialog, sGarbage}

sPassword == <<"p","a","s","s","w","o","r","d">>
sTel == <<"t","e","l">>
sUrl == <<"u","r","l">>
sSearch == <<"s","e","a","r","c","h">>
sRange == <<"r","a","n","g","e">>
sDate == <<"d","a","t","e">>
TypePool ==
    {sText, sEmail, sPassword, sTel, sUrl, sHidden, sSearch, sNumber, sCheckbox, sRange, sDate}
\* [tag, type]: an input of each type, an input without type, a select, a textarea
FieldPool ==
    {[tag |-> "input", type |-> t] : t \in TypePool \cup {Null}}
    \cup {[tag |-> "select", type |-> Null], [tag |-> "textarea", type |-> Null]}

MaxFields == 1
FieldName(i) == <<"f">> \o NumStr(i)
FieldEl(f, i) ==
    El(f.tag, <<<<"name", FieldName(i)>>>> \o (IF f.type = Null THEN <<>> ELSE <<<<"type", f.type>>>>),
       <<>>, <<>>)
FormEl(m, fs) ==
    El("form", IF m = Null THEN <<>> ELSE <<<<"method", m>>>>, <<>>,
       [i \in 1..Len(fs) |-> FieldEl(fs[i], i)])

InitExtract ==
    /\ \E m \in MethodPool : \E n \in 0..MaxFields : \E fs \in [1..n -> FieldPool] :
            html = <<FormEl(m, fs)>>
    /\ options = NoOptions
    /\ gcPc = "called"
    /\ contract = NoContract /\ usedActions = {} /\ history = <<>>
    /\ InitCapture /\ InitSession

SpecExtract == InitExtract /\ [][NextContract]_vars

\* C12: a form's method is POST only when its method attribute is POST in
\* any letter case; with the attribute absent, or with any other value, the
\* extracted method and the method of the form's action are GET.
C12_OtherMethodsAreGet ==
    Returned =>
        \A form \in {html[1]} :
        \A claimed \in {IF ToLowerCase(Attr(form, "method")) = sPost THEN sPOST ELSE sGET} :
            /\ Groups.forms[1].method = claimed
            /\ contract.actions[1].method = claimed

\* C13: every named field of a form gets the type of the table: number for
\* an input of type number, boolean for an input of type checkbox, string
\* for every other input, for select and for textarea.
C13_FieldTypeTable ==
    Returned =>
        \A form \in {html[1]} :
        \A j \in DOMAIN form.kids :
        \A claimed \in {IF form.kids[j].tag = "input" /\ Attr(form.kids[j], "type") = sNumber THEN sNumber
                        ELSE IF form.kids[j].tag = "input" /\ Attr(form.kids[j], "type") = sCheckbox THEN sBoolean
                        ELSE sString} :
            /\ Groups.forms[1].inputs[j].type = claimed
            /\ contract.actions[1].schema[j] = <<FieldName(j), claimed>>

\* the values of the fields after the first k entries of `fields` were
\* typed, one after another, into a page with the elements w
RECURSIVE TypedUpTo(_, _, _, _)
TypedUpTo(fields, k, base, w) ==
    IF k = 0 THEN base
    ELSE LET before == TypedUpTo(fields, k - 1, base, w)
             targets == FillTargets(Trim(fields[k][1]), w)
         IN  {f \in before : f.el \notin targets} \cup {[el |-> t, value |-> fields[k][2]] : t \in targets}
FieldFills(fields, k, w) == FillOutcome(Trim(fields[k][1]), w) = "filled"

\* C14: fillForm on an open page fills the entries of its object in order.
\* If the fill of entry i fails, the call throws that fill's error, entries
\* 1..i-1 keep their values and no later entry is typed; if every fill
\* succeeds the call returns the entries in the same order.
C14_FillFormStopsAtFirstFailure ==
    (last.op = "fillForm" /\ last.pre.page # NoHandle) =>
        \A w \in {Elements(last.pre.dom.doc)} :
        IF \A k \in DOMAIN last.fields : FieldFills(last.fields, k, w)
        THEN /\ last.ok
             /\ last.ret.filled = [k \in 1..Len(last.fields) |->
                                     [field |-> last.fields[k][1], value |-> last.fields[k][2]]]
             /\ last.post.filled = TypedUpTo(last.fields, Len(last.fields), last.pre.filled, w)
        ELSE \A i \in {CHOOSE i \in DOMAIN last.fields :
                          /\ ~FieldFills(last.fields, i, w)
                          /\ \A k \in 1..(i - 1) : FieldFills(last.fields, k, w)} :
             /\ ~last.ok
             /\ last.message \in {MsgFillTimeout, MsgStrict}
             /\ last.log = sWaitingFor \o Trim(last.fields[i][1])
             /\ last.i = i
             /\ last.post.filled = TypedUpTo(last.fields, i - 1, last.pre.filled, w)

\* the second of three entries has failed: the first keeps its value, the
\* third was not typed
C14_Witness ==
    /\ last.op = "fillForm" /\ ~last.ok
    /\ Len(last.fields) = 3 /\ last.i = 2
    /\ \E f \in filled : f.value = <<"a">>
    /\ \A f \in filled : f.value # <<"b">>

(***************************************************************************)
(* getSnapshot on pages of growing size: a launched session whose page     *)
(* shows n elements of one kind.                                           *)
(***************************************************************************)
MaxPageElems == 81
sBigUrl == sOrigin \o <<"/","b","i","g">>
\* n buttons, n links, n empty forms, or one form of n named inputs
PageKinds == {"buttons", "links", "forms", "inputs"}
NamedInput(i) == El("input", <<<<"name", FieldName(i)>>>>, <<>>, <<>>)
BigDoc(kind, n) ==
    CASE kind = "buttons" -> [i \in 1..n |-> El("button", <<>>, <<"G","o">>, <<>>)]
      [] kind = "links" -> [i \in 1..n |-> LinkApi2]
      [] kind = "forms" -> [i \in 1..n |-> El("form", <<>>, <<>>, <<>>)]
      [] OTHER -> <<El("form", <<>>, <<>>, [i \in 1..n |-> NamedInput(i)])>>

InitSnapshot ==
    /\ browser = 1 /\ page = 1 /\ started = 1 /\ open = {1}
    /\ \E kind \in PageKinds : \E n \in 0..MaxPageElems :
            dom = [url |-> sBigUrl, doc |-> BigDoc(kind, n)]
    /\ filled = {} /\ calls = {} /\ last = NoCall /\ nCalls = 0 /\ overlapped = FALSE
    /\ InitIdle /\ InitCapture

NextSnapshot ==
    \/ GetSnapshotCall
    \/ \E c \in calls : PageContentResolves(c)

SpecSnapshot == InitSnapshot /\ [][NextSnapshot]_vars

\* C15: a snapshot has at most ButtonsCap buttons and at most LinksCap
\* links, and its forms and the inputs of each form stay under a fixed
\* bound too, here the largest cap the code has, whatever the size of the
\* page.
C15_SnapshotIsBounded ==
    (last.op = "getSnapshot" /\ last.ok) =>
        /\ Len(last.ret.buttons) <= ButtonsCap
        /\ Len(last.ret.links) <= LinksCap
        /\ Len(last.ret.forms) <= LinksCap
        /\ \A i \in DOMAIN last.ret.forms : Len(last.ret.forms[i].inputs) <= LinksCap

(***************************************************************************)
(* agent.js: the browser_fill_form tool.  JSON.parse is computed for       *)
(* compact texts (no white space, no escapes, whole numbers): null, true,  *)
(* false, numbers, strings, arrays and objects of these.                   *)
(***************************************************************************)
JFail == [ok |-> FALSE, v |-> JNull, next |-> 0]
JDone(v, next) == [ok |-> TRUE, v |-> v, next |-> next]
LiteralAt(t, i, lit) == i + Len(lit) - 1 <= Len(t) /\ SubSeq(t, i, i + Len(lit) - 1) = lit
\* the first position from i on that holds no digit
DigitsEnd(t, i) ==
    LET stops == {j \in i..Len(t) : ~IsDigit(t[j])}
    IN  IF stops = {} THEN Len(t) + 1 ELSE CHOOSE j \in stops : \A k \in stops : j <= k
RECURSIVE ParseValue(_, _)
RECURSIVE ParseItems(_, _, _)
RECURSIVE ParseMembers(_, _, _)
ParseValue(t, i) ==
    IF i > Len(t) THEN JFail
    ELSE IF t[i] = "\""
    THEN LET quotes == {j \in (i + 1)..Len(t) : t[j] = "\""}
             j == CHOOSE q \in quotes : \A k \in quotes : q <= k
         IN  IF quotes = {} THEN JFail ELSE JDone(JStr(SubSeq(t, i + 1, j - 1)), j + 1)
    ELSE IF LiteralAt(t, i, <<"n","u","l","l">>) THEN JDone(JNull, i + 4)
    ELSE IF LiteralAt(t, i, <<"t","r","u","e">>) THEN JDone(JBool(TRUE), i + 4)
    ELSE IF LiteralAt(t, i, <<"f","a","l","s","e">>) THEN JDone(JBool(FALSE), i + 5)
    ELSE IF IsDigit(t[i])
    THEN LET e == DigitsEnd(t, i)
         IN  IF t[i] = "0" /\ e > i + 1 THEN JFail
             ELSE JDone([t |-> "number", s |-> SubSeq(t, i, e - 1), xs |-> <<>>], e)
    ELSE IF t[i] = "["
    THEN IF LiteralAt(t, i, <<"[","]">>) THEN JDone(JArr(<<>>), i + 2) ELSE ParseItems(t, i + 1, <<>>)
    ELSE IF t[i] = "{"
    THEN IF LiteralAt(t, i, <<"{","}">>) THEN JDone(JObj(<<>>), i + 2) ELSE ParseMembers(t, i + 1, <<>>)
    ELSE JFail
ParseItems(t, i, acc) ==
    LET r == ParseValue(t, i)
    IN  IF ~r.ok \/ r.next > Len(t) THEN JFail
        ELSE IF t[r.next] = "," THEN ParseItems(t, r.next + 1, Append(acc, r.v))
        ELSE IF t[r.next] = "]" THEN JDone(JArr(Append(acc, r.v)), r.next + 1)
        ELSE JFail
ParseMembers(t, i, acc) ==
    LET k == ParseValue(t, i)
    IN  IF ~k.ok \/ k.v.t # "string" \/ k.next > Len(t) THEN JFail
        ELSE IF t[k.next] # ":" THEN JFail
        ELSE LET r == ParseValue(t, k.next + 1)
             IN  IF ~r.ok \/ r.next > Len(t) THEN JFail
                 ELSE IF t[r.next] = "," THEN ParseMembers(t, r.next + 1, Append(acc, <<k.v.s, r.v>>))
                 ELSE IF t[r.next] = "}" THEN JDone(JObj(Append(acc, <<k.v.s, r.v>>)), r.next + 1)
                 ELSE JFail
\* JSON.parse(text): the value, or a SyntaxError
JsonParse(text) ==
    LET r == ParseValue(text, 1)
    IN  IF r.ok /\ r.next = Len(text) + 1
        THEN [throws |-> FALSE, json |-> r.v]
        ELSE [throws |-> TRUE, json |-> JNull]

\* lines 565-569: `fields` stays {} when JSON.parse throws, and becomes {}
\* again when the value is null or its typeof is not 'object'
ToolFallsBackToEmpty(parsed) ==
    parsed.throws \/ TypeOf(parsed.json) # sObject \/ parsed.json.t = "null"
\* the entries fillForm walks: Object.entries(fields), each value as
\* String(value) types it
ToolFields(fields_json) ==
    LET parsed == JsonParse(fields_json)
    IN  IF ToolFallsBackToEmpty(parsed) THEN <<>>
        ELSE [i \in DOMAIN Entries(parsed.json) |->
                <<Entries(parsed.json)[i].k, Entries(parsed.json)[i].x.s>>]

\* the handler of browser_fill_form up to the first await inside
\* browserSession.fillForm(fields)
BrowserFillFormTool(fields_json) ==
    /\ MayCall("fillForm")
    /\ Called
    /\ UNCHANGED <<browser, page, started, open, dom, filled>>
    /\ \E fields \in {ToolFields(fields_json)} :
       \E c \in {NewCall("browser_fill_form", fields_json, <<>>, fields, FALSE)} :
        IF NotLaunched(page)
        THEN Return(c, c, FALSE, MsgNotLaunched, <<>>, <<>>)
        ELSE IF fields = <<>>
        THEN Return(c, c, TRUE, "", <<>>, [filled |-> <<>>])
        ELSE Suspend(c, [c EXCEPT !.pc = "fill"])
    /\ UNCHANGED <<gcVars, agent, capVars>>

sJsonEmail == <<"{","\"","e","m","a","i","l","\"",":","\"","a","\"","}">>
sJsonNope == <<"{","\"","n","o","p","e","\"",":","\"","a","\"","}">>
sJsonArray == <<"[","\"","a","\"","]">>
PayloadPool ==
    {<<>>, <<"{">>, sNotJson, sJsonQ \o <<"}">>, <<"n","u","l","l">>, <<"7">>, <<"t","r","u","e">>,
     <<"\"">> \o sEmail \o <<"\"">>, <<"[","]">>, sJsonArray, <<"{","}">>, sJsonEmail, sJsonNope}

\* a launched session, on the blank page or on one of the sites
InitTool ==
    /\ browser = 1 /\ page = 1 /\ started = 1 /\ open = {1}
    /\ dom \in {BlankPage} \cup {SiteDoc(u) : u \in Urls}
    /\ filled = {} /\ calls = {} /\ last = NoCall /\ nCalls = 0 /\ overlapped = FALSE
    /\ InitIdle /\ InitCapture

NextTool ==
    \/ \E fields_json \in PayloadPool : BrowserFillFormTool(fields_json)
    \/ \E c \in calls : FillFormFieldSettles(c)

SpecTool == InitTool /\ [][NextTool]_vars

\* the payload is no JSON text, or the text of something that is no JSON object
MalformedPayload(fields_json) ==
    JsonParse(fields_json).throws \/ JsonParse(fields_json).json.t # "object"

\* C16: browser_fill_form with a payload that does not parse, or parses to
\* something that is not an object, fills no field, leaves the page as it
\* was and returns {ok: true, filled: []} on a launched session.
C16_MalformedPayloadFillsNothing ==
    (last.op = "browser_fill_form" /\ MalformedPayload(last.arg) /\ ~NotLaunched(last.pre.page)) =>
        /\ last.ok
        /\ last.ret.filled = <<>>
        /\ last.post = last.pre

(***************************************************************************)
(* Claims about the time box of fetchWithApiDiscovery                      *)
(***************************************************************************)
\* C17: the list fetchWithApiDiscovery returns holds exactly the xhr/fetch
\* requests, first per key, whose requestfinished event was delivered
\* before the settle window ended: it is the list as it stood when the
\* timer fired, and every record of it is the record of an xhr/fetch
\* request.
C17_ReturnedListIsTheSettledList ==
    returned.done =>
        /\ returned.discoveredApis = settled.discoveredApis
        /\ \A i \in DOMAIN returned.discoveredApis :
                FirstOf(KeyOf(returned.discoveredApis[i])) # {}
        /\ Len(returned.discoveredApis) <= Cardinality(firstSample)

(***************************************************************************)
(* generateContract: the contract name, for hints and titles of all kinds  *)
(***************************************************************************)
sLongTitle == [i \in 1..45 |-> IF i % 9 = 0 THEN " " ELSE IF i = 2 THEN "!" ELSE "x"]
HintPool ==
    {Undefined, <<>>, sMyShop, <<"m","y","-","s","h","o","p">>, <<"S","h","o","p","1">>, <<" ">>,
     <<"a","\t","b">>, <<"a"," "," ","b">>, <<"!">>}
TitleTexts ==
    {<<>>, <<" "," ">>, <<"M","y"," "," ","S","h","o","p">>, <<"!","!","!">>,
     <<"S","h","o","p"," ","&"," ","C","o",".">>, <<" ","H","i","\n">>, <<"a","_","b">>, sLongTitle}
\* no <title>, or one <title> with a text of the pool, before or after a link
NamePages ==
    {<<>>, <<LinkApi2>>}
    \cup {<<El("title", <<>>, t, <<>>)>> : t \in TitleTexts}
    \cup {<<LinkApi2, El("title", <<>>, t, <<>>)>> : t \in TitleTexts}
InitName ==
    /\ html \in NamePages
    /\ \E c \in HintPool : options = [context |-> c, discoveredApis |-> <<>>]
    /\ gcPc = "called"
    /\ contract = NoContract /\ usedActions = {} /\ history = <<>>
    /\ InitCapture /\ InitSession
SpecName == InitName /\ [][NextContract]_vars

\* the hint with each whitespace character replaced by an underscore
HintToken(h) == [i \in DOMAIN h |-> IF IsSpace(h[i]) THEN "_" ELSE h[i]]
HintIsToken(h) ==
    /\ h \notin {Undefined, Null} /\ h # <<>>
    /\ \A i \in DOMAIN h : IsWordChar(HintToken(h)[i])
\* the title text: the first character of every whitespace run becomes an
\* underscore, letters, digits and underscores stay, the rest goes; the
\* first TitleCap characters of that
TitleToken(t) ==
    LET keep == {i \in DOMAIN t : \/ IsWordChar(t[i])
                                  \/ IsSpace(t[i]) /\ (i = 1 \/ ~IsSpace(t[i - 1]))}
        Nth(k) == CHOOSE i \in keep : Cardinality({j \in keep : j < i}) = k - 1
        n == IF Cardinality(keep) < TitleCap THEN Cardinality(keep) ELSE TitleCap
    IN  [k \in 1..n |-> IF IsSpace(t[Nth(k)]) THEN "_" ELSE t[Nth(k)]]
DocumentTitle == Trim(TitleText(Walk(html, FALSE)))

NavigateTimeout == 30000
TimedWaitsSettle ==
    /\ WF_vars(\E c \in calls : PageGotoResolves(c) \/ PageGotoRejects(c))
    /\ WF_vars(\E c \in calls : LocatorClickSettles(c))
    /\ WF_vars(\E c \in calls : LocatorFillSettles(c))
    /\ WF_vars(\E c \in calls : FillFormFieldSettles(c))
SpecSessionTimed == Init /\ [][NextSession]_vars /\ TimedWaitsSettle

Pending(id) == \E c \in calls : c.id = id

\* C19: every call of launch, navigate, click, fill, fillForm, getSnapshot
\* and close eventually returns a result or raises an error; none stays
\* pending forever.
C19_EveryCallReturns ==
    \A id \in 1..MaxCalls : Pending(id) ~> ~Pending(id)

(***************************************************************************)
(* Claims about the states of a session                                    *)
(***************************************************************************)
\* the session has a page and that page still is the blank one
LaunchedNotNavigated(st) == st.page # NoHandle /\ st.dom = BlankPage

\* C20: click, fill and getSnapshot on a session that is launched and has
\* never been navigated are rejected before any wait on the browser, with
\* an error, and leave the session as it was.
C20_BlankPageIsRefused ==
    (last.op \in {"click", "fill", "getSnapshot"} /\ LaunchedNotNavigated(last.pre)) =>
        /\ ~last.ok
        /\ last.awaits = 0
        /\ last.post = last.pre

C26_OverlappingLaunchesStartOneBrowser ==
    (\A c \in calls : c.op \notin LifecycleOps) => open \subseteq {browser}

\* C27: whenever no launch or close call is in flight, the browser handle
\* is set if and only if the page handle is set.
C27_HandlesSetTogether ==
    (\A c \in calls : c.op \notin LifecycleOps) =>
        (browser # NoHandle <=> page # NoHandle)

\* C28: once a launch call that a close call was interleaved with has
\* returned and no call is in flight, the page handle is set only if the
\* browser handle is set.
C28_NoPageWithoutBrowser ==
    (calls = {} /\ last.op \in LifecycleOps) =>
        (last.post.page # NoHandle => last.post.browser # NoHandle)

(***************************************************************************)
(* click and fill on pages where several strategies have a match           *)
(***************************************************************************)
sTag == <<"#","t","a","g">>
sSearchLabel == <<"S","e","a","r","c","h">>
sJoinUs == sJoin \o <<" ","u","s">>
\* <button>#tag</button>
TagDoc == <<El("button", <<>>, sTag, <<>>)>>
\* <button>Join</button> <a href="/j">Join us</a>
BothDoc == <<El("button", <<>>, sJoin, <<>>), El("a", <<<<"href", <<"/","j">>>>>>, sJoinUs, <<>>)>>
\* <p>Join us</p> <button>Join</button>
TextDoc == <<El("p", <<>>, sJoinUs, <<>>), El("button", <<>>, sJoin, <<>>)>>
\* <input name="email"> <input name="e2" placeholder="Your email"> <input name="q" aria-label="Search">
FieldsDoc ==
    <<El("input", <<<<"name", sEmail>>>>, <<>>, <<>>),
      El("input", <<<<"name", <<"e","2">>>>, <<"placeholder", <<"Y","o","u","r"," ">> \o sEmail>>>>, <<>>, <<>>),
      El("input", <<<<"name", <<"q">>>>, <<"aria-label", sSearchLabel>>>>, <<>>, <<>>)>>
ResolvePages ==
    {[url |-> sShopUrl, doc |-> ShopDoc],
     [url |-> sOrigin \o <<"/","t","a","g">>, doc |-> TagDoc],
     [url |-> sOrigin \o <<"/","b","o","t","h">>, doc |-> BothDoc],
     [url |-> sOrigin \o <<"/","t","e","x","t">>, doc |-> TextDoc],
     [url |-> sOrigin \o <<"/","f","i","e","l","d","s">>, doc |-> FieldsDoc]}
ResolveClicks == {sJoin, sNope, sTag, <<"#">> \o sGo}
ResolveFills == {sEmail, <<" ">> \o sSearchLabel, <<"q">>, sNope}

\* a launched session whose page shows one of the pages
InitResolve ==
    /\ browser = 1 /\ page = 1 /\ started = 1 /\ open = {1}
    /\ dom \in ResolvePages
    /\ filled = {} /\ calls = {} /\ last = NoCall /\ nCalls = 0 /\ overlapped = FALSE
    /\ InitIdle /\ InitCapture

NextResolve ==
    \/ \E x \in ResolveClicks : ClickCall(x)
    \/ \E id \in ResolveFills, value \in FillValues : FillCall(id, value)
    \/ \E c \in calls : LocatorClickSettles(c)
    \/ \E c \in calls : LocatorFillSettles(c)

SpecResolve == InitResolve /\ [][NextResolve]_vars

SelectorShaped(s) == LooksLikeSelector(s) /\ Len(s) < SelectorCap
\* what the label chain resolves to for s
ChainTargets(s, w) == ClickTargets([kind |-> "chain", s |-> s], w)

\* C22: a click with a selector-shaped input under SelectorCap characters
\* whose direct lookup finds no element goes on to the label chain with
\* the same input: when the chain has its one match, the click lands.
C22_SelectorFallsBackToLabels ==
    (last.op = "click" /\ last.pre.page # NoHandle) =>
        \A s \in {ClickText(last.arg)} :
        \A w \in {Elements(last.pre.dom.doc)} :
            (/\ s # <<>> /\ SelectorShaped(s)
             /\ CssMatches(s, w) = {}
             /\ Cardinality(ChainTargets(s, w)) = 1)
                => last.ok /\ last.ret.clicked = s

\* C23: a click with a label-shaped input that is the name of one button
\* clicks that button and succeeds, whatever links and texts the label
\* matches as well.
C23_ButtonMatchWins ==
    (last.op = "click" /\ last.pre.page # NoHandle) =>
        \A s \in {ClickText(last.arg)} :
        \A w \in {Elements(last.pre.dom.doc)} :
            (/\ s # <<>> /\ ~SelectorShaped(s)
             /\ Cardinality(ButtonNameMatches(s, w)) = 1)
                => last.ok /\ last.ret.clicked = s

\* the strategies of fill, each narrowed to its first match
ByName(id, w) == First({i \in DOMAIN w : IsField(w[i].el) /\ Attr(w[i].el, "name") = id})
ByLabel(id, w) ==
    First({i \in DOMAIN w : IsField(w[i].el) /\ Attr(w[i].el, "aria-label") # <<>>
                             /\ Contains(Attr(w[i].el, "aria-label"), id)})
ByPlaceholder(id, w) ==
    First({i \in DOMAIN w : IsField(w[i].el) /\ Attr(w[i].el, "placeholder") # <<>>
                             /\ Contains(Attr(w[i].el, "placeholder"), id)})
FirstStrategy(id, w) ==
    IF ByName(id, w) # {} THEN ByName(id, w)
    ELSE IF ByLabel(id, w) # {} THEN ByLabel(id, w)
    ELSE ByPlaceholder(id, w)

\* C24: fill takes the field named by the trimmed identifier, else the one
\* labelled so, else the one with that placeholder; the first strategy
\* with a match gives the field, which gets the value as a text, no other
\* field changes, and the result reports the trimmed identifier and the
\* value.
C24_FillFirstStrategyWins ==
    (last.op = "fill" /\ last.pre.page # NoHandle) =>
        \A id \in {Trim(last.arg)} :
        \A target \in FirstStrategy(id, Elements(last.pre.dom.doc)) :
            /\ last.ok
            /\ last.ret.field = id
            /\ last.post.filled = {f \in last.pre.filled : f.el # target}
                                  \cup {[el |-> target, value |-> last.ret.value]}

(***************************************************************************)
(* getSnapshot against extractInteractiveGroups on the same markup         *)
(***************************************************************************)
CompareElems == 2
\* <a href="#top">Top</a>
LinkFragment == El("a", <<<<"href", <<"#","t","o","p">>>>>>, <<"T","o","p">>, <<>>)
\* <form><input name="token" type="hidden"><input name="q"></form>
FormHidden ==
    El("form", <<>>, <<>>,
       <<El("input", <<<<"name", <<"t","o","k","e","n">>>>, <<"type", sHidden>>>>, <<>>, <<>>),
         El("input", <<<<"name", <<"q">>>>>>, <<>>, <<>>)>>)
\* <span onclick="go()">Buy</span>
SpanOnclick == El("span", <<<<"onclick", <<"g","o","(",")">>>>>>, <<"B","u","y">>, <<>>)
ComparePool == {FormJoin, BtnJoin, LinkApi2, LinkA, LinkFragment, FormHidden, SpanOnclick}
InitCompare ==
    /\ browser = 1 /\ page = 1 /\ started = 1 /\ open = {1}
    /\ \E n \in 0..CompareElems : \E doc \in [1..n -> ComparePool] :
            dom = [url |-> sShopUrl, doc |-> doc]
    /\ filled = {} /\ calls = {} /\ last = NoCall /\ nCalls = 0 /\ overlapped = FALSE
    /\ InitIdle /\ InitCapture
SpecCompare == InitCompare /\ [][NextSnapshot]_vars

\* C25: on every markup whose lists stay under the caps, the snapshot
\* lists the links, the buttons and, per form, the named fields and the
\* submit label that extractInteractiveGroups lists for the same markup.
C25_SnapshotListsWhatExtractorLists ==
    (last.op = "getSnapshot" /\ last.ok) =>
        \A G \in {extractInteractiveGroups(last.pre.dom.doc)} :
            /\ [i \in DOMAIN last.ret.links |-> last.ret.links[i].href]
                    = [i \in DOMAIN G.links |-> G.links[i].href]
            /\ [i \in DOMAIN last.ret.buttons |-> last.ret.buttons[i].text]
                    = [i \in DOMAIN G.buttons |-> G.buttons[i].text]
            /\ Len(last.ret.forms) = Len(G.forms)
            /\ \A k \in DOMAIN G.forms :
                /\ [i \in DOMAIN last.ret.forms[k].inputs |-> last.ret.forms[k].inputs[i].name]
                        = [i \in DOMAIN G.forms[k].inputs |-> G.forms[k].inputs[i].name]
                /\ last.ret.forms[k].submitLabel = G.forms[k].submitLabel

(***************************************************************************)
(* Claims about the names and endpoints of a contract                      *)
(***************************************************************************)
\* C29: every action of a contract has a name that is not empty and the
\* endpoint /agent/ followed by that name, also for forms, buttons and
\* links whose labels have no letter, digit or underscore.
C29_NamesNonEmptyEndpointsMatch ==
    Returned =>
        \A i \in DOMAIN contract.actions :
            /\ contract.actions[i].action # <<>>
            /\ contract.actions[i].endpoint = <<"/","a","g","e","n","t","/">> \o contract.actions[i].action

\* ---------------------------------------------------------------------------
\* runAgentTurn (src/agent.js): the loop of model calls and tool calls
\* ---------------------------------------------------------------------------

maxTurns == 15

\* the model asks for two tools in one response in at most this many rounds
MaxWideRounds == 1

sMaxTurnsReached == <<"(","M","a","x"," ","t","u","r","n","s"," ","r","e","a","c","h","e","d",")">>
sNoTextOutput == <<"(","N","o"," ","t","e","x","t"," ","o","u","t","p","u","t",")">>
sNoFinalReply == <<
    "I"," ","d","i","d","n","'","t"," ","g","e","t"," ","a"," ","f","i","n","a","l"," ","r","e",
    "p","l","y","."," ","T","r","y"," ","a","s","k","i","n","g"," ","a","g","a","i","n"," ","o",
    "r"," ","g","i","v","e"," ","m","e"," ","a"," ","s","p","e","c","i","f","i","c"," ","s","t",
    "o","r","e"," ","U","R","L"," ","(","e",".","g","."," ","a"," ","t","r","e","k","k","i","n",
    "g"," ","s","h","o","p",")"," ","s","o"," ","I"," ","c","a","n"," ","f","e","t","c","h"," ",
    "i","t","s"," ","c","o","n","t","r","a","c","t"," ","a","n","d"," ","s","u","g","g","e","s",
    "t"," ","a","c","t","i","o","n","s",".">>
sError == <<"E","r","r","o","r">>
sOk == <<"o","k">>
sEmptyResult == <<"{","\"","c","o","n","t","e","n","t","\"",":","[","]","}">>
sHi == <<" ","h","i">>
sBlank == <<" ">>

\* one entry of currentMessages
Message(role, content, has_tool_calls, tool_calls, tool_call_id) ==
    [role |-> role, content |-> content, has_tool_calls |-> has_tool_calls,
     tool_calls |-> tool_calls, tool_call_id |-> tool_call_id]

UserMessage == Message("user", sHi, FALSE, <<>>, 0)

\* one entry of msg.tool_calls
ToolCall(id, name, arguments) == [id |-> id, name |-> name, arguments |-> arguments]

\* what openRouterChat resolves with: choices[0].message, or no message at all
Response(message, content, has_tool_calls, tool_calls) ==
    [message |-> message, content |-> content, has_tool_calls |-> has_tool_calls,
     tool_calls |-> tool_calls]

\* the responses of the model in its n-th call; the ids of its tool calls are
\* fresh in every response
FinalResponses ==
    { Response(FALSE, Null, FALSE, <<>>),
      Response(TRUE, sHi, FALSE, <<>>),
      Response(TRUE, sBlank, FALSE, <<>>),
      Response(TRUE, Null, TRUE, <<>>) }

NarrowResponse(n) ==
    Response(TRUE, Null, TRUE, <<ToolCall(2 * n - 1, "fetch_contract", sJsonEmail)>>)

WideResponse(n) ==
    Response(TRUE, sHi, TRUE,
             <<ToolCall(2 * n - 1, "fetch_contract", sNotJson),
               ToolCall(2 * n, "browser_close", <<>>)>>)

\* what mcpClient.callTool resolves with: content[0].text when there is one,
\* the isError flag, and the JSON text of the whole result
ToolResult(name, args) ==
    IF name = "browser_close"
    THEN [has_text |-> FALSE, text |-> <<>>, isError |-> FALSE, json |-> sEmptyResult]
    ELSE IF args = JObj(<<>>)
         THEN [has_text |-> FALSE, text |-> <<>>, isError |-> TRUE, json |-> sEmptyResult]
         ELSE [has_text |-> TRUE, text |-> sOk, isError |-> FALSE, json |-> sEmptyResult]

\* the two copies of runAgentTurn in the file, by their first line
Copies == {81, 279}

\* args of one tool call: tc.function.arguments || '{}', parsed, {} when the
\* parse throws
ArgsThrown(tc) ==
    LET argsStr == IF tc.arguments = <<>> THEN <<"{","}">> ELSE tc.arguments
    IN  JsonParse(argsStr).json

ToolArgs(tc) ==
    LET argsStr == IF tc.arguments = <<>> THEN <<"{","}">> ELSE tc.arguments
        r == JsonParse(argsStr)
    IN  IF r.throws THEN JObj(<<>>) ELSE r.json

\* the content of the tool message
ToolText(result) ==
    IF result.has_text THEN result.text
    ELSE IF result.isError THEN sError ELSE result.json

\* the value returned when the response carries no tool calls
FinalText(copy, content) ==
    IF copy = 81
    THEN IF content = Null \/ content = <<>> THEN sNoTextOutput ELSE content
    ELSE LET text == IF content = Null \/ content = <<>> THEN <<>> ELSE Trim(content)
         IN  IF text # <<>> THEN text ELSE sNoFinalReply

\* runAgentTurn(apiKey, mcpClient, toolsOpenAI, messages, model) is called
RunAgentTurn(copy) ==
    /\ agent.pc = "idle"
    /\ agent' = [agent EXCEPT !.pc = IF 0 < maxTurns THEN "model" ELSE "returned",
                              !.out = IF 0 < maxTurns THEN Null ELSE sMaxTurnsReached,
                              !.copy = copy, !.turn = 0,
                              !.currentMessages = <<UserMessage>>]
    /\ UNCHANGED <<gcVars, capVars, sessVars>>

\* openRouterChat resolves
OpenRouterResponds(response) ==
    /\ agent.pc = "model"
    /\ Len(response.tool_calls) > 1 => agent.wide < MaxWideRounds
    /\ LET msg == Message("assistant", response.content, response.has_tool_calls,
                          response.tool_calls, 0)
           pushed == Append(agent.currentMessages, msg)
       IN  agent' =
             IF ~response.message
             THEN [agent EXCEPT !.pc = "thrown", !.modelCalls = @ + 1]
             ELSE IF ~response.has_tool_calls \/ Len(response.tool_calls) = 0
             THEN [agent EXCEPT !.pc = "returned", !.modelCalls = @ + 1,
                                !.currentMessages = pushed,
                                !.out = FinalText(agent.copy, response.content)]
             ELSE [agent EXCEPT !.pc = "tool", !.modelCalls = @ + 1,
                                !.currentMessages = pushed,
                                !.tool_calls = response.tool_calls, !.k = 1,
                                !.wide = IF Len(response.tool_calls) > 1 THEN @ + 1 ELSE @]
    /\ UNCHANGED <<gcVars, capVars, sessVars>>

\* mcpClient.callTool resolves for the tool call in hand
CallToolResolves ==
    /\ agent.pc = "tool"
    /\ LET tc == agent.tool_calls[agent.k]
           args == ToolArgs(tc)
           result == ToolResult(tc.name, args)
           pushed == Append(agent.currentMessages,
                            Message("tool", ToolText(result), FALSE, <<>>, tc.id))
           ran == Append(agent.executed, [id |-> tc.id, name |-> tc.name, args |-> args])
       IN  agent' =
             IF agent.k < Len(agent.tool_calls)
             THEN [agent EXCEPT !.currentMessages = pushed, !.executed = ran, !.k = @ + 1]
             ELSE IF agent.turn + 1 < maxTurns
             THEN [agent EXCEPT !.currentMessages = pushed, !.executed = ran,
                                !.turn = @ + 1, !.pc = "model", !.k = 0, !.tool_calls = <<>>]
             ELSE [agent EXCEPT !.currentMessages = pushed, !.executed = ran,
                                !.turn = @ + 1, !.pc = "returned", !.k = 0,
                                !.tool_calls = <<>>, !.out = sMaxTurnsReached]
    /\ UNCHANGED <<gcVars, capVars, sessVars>>

NextAgent ==
    \/ \E copy \in Copies : RunAgentTurn(copy)
    \/ \E response \in FinalResponses : OpenRouterResponds(response)
    \/ OpenRouterResponds(NarrowResponse(agent.modelCalls + 1))
    \/ OpenRouterResponds(WideResponse(agent.modelCalls + 1))
    \/ CallToolResolves

\* every model call and every tool call returns
CallsReturn ==
    /\ WF_vars(\/ \E response \in FinalResponses : OpenRouterResponds(response)
               \/ OpenRouterResponds(NarrowResponse(agent.modelCalls + 1))
               \/ OpenRouterResponds(WideResponse(agent.modelCalls + 1)))
    /\ WF_vars(CallToolResolves)

SpecAgent == Init /\ [][NextAgent]_vars /\ CallsReturn

\* ---------------------------------------------------------------------------
\* Claims about runAgentTurn
\* ---------------------------------------------------------------------------

\* an assistant message that asks for no tool
IsFinal(m) == m.role = "assistant" /\ (~m.has_tool_calls \/ Len(m.tool_calls) = 0)

\* the tool calls the assistant messages of a list ask for, in order
RECURSIVE RequestedCalls(_)
RequestedCalls(msgs) ==
    IF msgs = <<>> THEN <<>>
    ELSE (IF Head(msgs).role = "assistant" THEN Head(msgs).tool_calls ELSE <<>>)
         \o RequestedCalls(Tail(msgs))

IsAssistant(m) == m.role = "assistant"
IsTool(m) == m.role = "tool"

AgentRunning == agent.pc \in {"model", "tool"}
AgentDone == agent.pc \in {"returned", "thrown"}

C30_Rounds ==
    LET msgs == agent.currentMessages
        n == Len(msgs)
        asked == RequestedCalls(msgs)
        answers == SelectSeq(msgs, IsTool)
    IN  /\ agent.modelCalls <= maxTurns
        /\ Len(SelectSeq(msgs, IsAssistant))
             = IF agent.pc = "thrown" THEN agent.modelCalls - 1 ELSE agent.modelCalls
        \* a response without tool calls ends the call with the model's text
        /\ \A i \in 1..n :
             IsFinal(msgs[i]) =>
                /\ i = n /\ agent.pc = "returned"
                /\ LET c == msgs[i].content
                   IN  IF c # Null /\ Trim(c) # <<>>
                       THEN agent.out = IF agent.copy = 279 THEN Trim(c) ELSE c
                       ELSE agent.out \in {sNoFinalReply, sNoTextOutput, c}
        \* the other way to return: maxTurns rounds that all asked for tools
        /\ (agent.pc = "returned" /\ ~IsFinal(msgs[n])) =>
             /\ agent.out = sMaxTurnsReached
             /\ agent.modelCalls = maxTurns /\ agent.turn = maxTurns
        /\ agent.out = sMaxTurnsReached => agent.modelCalls = maxTurns
        \* every tool call asked for is run once, in order, with the parsed arguments
        /\ Len(agent.executed) <= Len(asked)
        /\ agent.pc # "tool" => Len(agent.executed) = Len(asked)
        /\ \A j \in 1..Len(agent.executed) :
             /\ agent.executed[j].id = asked[j].id
             /\ agent.executed[j].name = asked[j].name
             /\ LET r == JsonParse(IF asked[j].arguments = <<>> THEN <<"{","}">>
                                   ELSE asked[j].arguments)
                IN  agent.executed[j].args = IF r.throws THEN JObj(<<>>) ELSE r.json
        \* and answered by one tool message with its id, after the assistant message
        /\ Len(answers) = Len(agent.executed)
        /\ \A j \in 1..Len(answers) :
             /\ answers[j].tool_call_id = asked[j].id
             /\ Cardinality({i \in 1..n : IsTool(msgs[i])
                                          /\ msgs[i].tool_call_id = asked[j].id}) = 1
        /\ \A i \in 1..n :
             IsAssistant(msgs[i]) =>
                LET tcs == msgs[i].tool_calls
                IN  /\ \A j \in 1..Len(tcs) :
                         i + j <= n => /\ IsTool(msgs[i + j])
                                       /\ msgs[i + j].tool_call_id = tcs[j].id
                    /\ i + Len(tcs) + 1 <= n => IsAssistant(msgs[i + Len(tcs) + 1])

\* C30: runAgentTurn ends whenever every model call and tool call returns: it
\* makes at most 15 model calls, returns the model's text at the first response
\* without tool calls, returns '(Max turns reached)' after 15 rounds that all
\* asked for tools, and in each round runs every tool call asked for once, in
\* order, with {} for arguments that do not parse, and answers it with one
\* tool message carrying its id after the assistant message.
C30_RunAgentTurnEnds == []C30_Rounds /\ (AgentRunning ~> AgentDone)

C30_Witness ==
    /\ agent.pc = "returned" /\ agent.out = sMaxTurnsReached
    /\ agent.modelCalls = maxTurns
    /\ agent.wide > 0
    /\ \E j \in 1..Len(agent.executed) : agent.executed[j].args = JObj(<<>>)
    /\ Len(SelectSeq(agent.currentMessages, IsTool)) = Len(agent.executed)

====
